---- MODULE Spec2Model ----
(***************************************************************************)
(* A model of the beeswax-node-client library.                             *)
(*                                                                         *)
(* The module holds three state machines over one set of variables:        *)
(*   SpecSession   BeeswaxClient's session layer: authenticate(),          *)
(*                 performAuthentication() and the axios interceptors,     *)
(*                 run by NTasks concurrent callers against a remote that  *)
(*                 answers every exchange as it likes.                     *)
(*   SpecResource  one resource call at a time (BaseResource and its       *)
(*                 subclasses) on top of BeeswaxClient.request().          *)
(*   SpecMacro     one CampaignMacros call at a time.                      *)
(* Each specification leaves the variables of the other two unchanged.     *)
(*                                                                         *)
(* Scheduling (Node's event loop): a client action is one macrotask with   *)
(* its whole microtask drain, except that the continuations of a settled   *)
(* authentication promise are the separate action Resume, which runs       *)
(* before any other client action (MicrotaskPending).                      *)
(***************************************************************************)
EXTENDS Integers, Sequences, FiniteSets, TLC

\* ------------------------------------------------------------------ bounds
\* Concurrent callers of one client instance; each makes one call.
NTasks == 3
\* performAuthentication() invocations allowed in one behaviour.
MaxAttempts == 2
\* Distinct session cookies the remote hands out in one behaviour.
MaxTokens == 1
\* Line items (or campaign ids) a macro is called with.
MaxItems == 2
\* Creatives of each line item createFullCampaign is called with.
MaxCreatives == 1
\* Targeting templates createFullCampaign is called with.
MaxTemplates == 1
\* Records on the remote that match the filter of a queryAll call.
MaxRecords == 101
\* Records on a page the remote returns to a query that names no rows.
DefaultRows == 1
\* The largest `retries` a caller configures in retryOptions.
MaxRetries == 2
\* Records other clients create or delete while one queryAll call runs.
MaxChanges == 1

\* ------------------------------------------------------- program constants
\* `undefined` for authPromise and sessionCookies.
None == 0
\* error.response?.status === 401
Unauthorized == 401
\* An HTTP success status (axios resolves the promise).
StatusOk == 200
\* Some other HTTP failure status.
ServerError == 500
\* No HTTP response at all (network failure): error.response is undefined.
NoStatus == 0

Task == 1..NTasks
AttemptId == 1..MaxAttempts
Statuses == {StatusOk, Unauthorized, ServerError, NoStatus}

VARIABLES
  authPromise,     \* BeeswaxClient.authPromise: None or the attempt it refers to
  sessionCookies,  \* BeeswaxClient.sessionCookies: None or a token
  tasks,           \* per caller: its call and the stack of pending exchanges
  attempt,         \* per performAuthentication() promise: its state and result
  attempts,        \* performAuthentication() invocations so far
  loginSends,      \* per attempt: POST /rest/authenticate requests sent
  srvTok,          \* the last token the remote issued
  sentAt,          \* SpecRotation: per caller, the logins that had succeeded
                   \* when its request last went out (history)
  rcall,           \* SpecResource: the resource call in progress
  rsent,           \* SpecResource: requests the call has sent to the remote
  mac,             \* SpecMacro: the macro call in progress
  qall,            \* SpecQuery: the queryAll call in progress
  clone,           \* SpecClone: the request bodies cloneCampaign builds
  xfer,            \* SpecRetry: one axios request under the retry policy
  scan             \* SpecScan: a queryAll call against a remote that changes

sessVars == <<authPromise, sessionCookies, tasks, attempt, attempts,
              loginSends, srvTok, sentAt>>
resVars == <<rcall, rsent>>
macVars == <<mac>>
libVars == <<qall, clone, xfer, scan>>
vars == <<sessVars, resVars, macVars, libVars>>

\* ------------------------------------------------------------ session data
NoResp == [status |-> NoStatus, ok |-> TRUE, setCookie |-> None]
NoErr == [kind |-> "none", status |-> NoStatus, body |-> "none", src |-> NoStatus]

\* An error as the caller sees it. kind: which value was thrown; status and
\* body: what the thrown value carries; src: the HTTP status of the response
\* it came from (history, not visible to the caller).
Err(kind, status, body, src) ==
  [kind |-> kind, status |-> status, body |-> body, src |-> src]

\* A pending exchange or call of a task.
\*   kind   "authcall" a caller's authenticate(); "req" an axios request of
\*          request(); "login" the POST /rest/authenticate of attempt att
\*   st     "wire" sent, "answered" response on its way back, "wait" awaiting
\*          the authentication promise `wait`, "done" settled
\*   owner  this frame created the promise it waits for (runs the finally)
\*   retry  config._retry
\*   sends  times the exchange was sent; cookie: the Cookie header last sent
\* A frame keeps `wait` after it has resumed: the promise its 401 handler
\* or its caller awaited.
Frame(kind, st, att, cookie) ==
  [kind |-> kind, st |-> st, att |-> att, wait |-> None, owner |-> FALSE,
   retry |-> FALSE, sends |-> IF kind = "authcall" THEN 0 ELSE 1,
   cookie |-> cookie, resp |-> NoResp]

IdleTask == [pc |-> "idle", op |-> "none", frames |-> <<>>, err |-> NoErr]

Top(t) == tasks[t].frames[Len(tasks[t].frames)]
\* A settled frame keeps its history (sends, retry, wait) only.
Done(f) == [f EXCEPT !.st = "done", !.resp = NoResp, !.cookie = None,
                     !.owner = FALSE]
Rest(t) == SubSeq(tasks[t].frames, 1, Len(tasks[t].frames) - 1)
HasTop(t, st) == Len(tasks[t].frames) > 0 /\ Top(t).st = st

\* A continuation of a settled authentication promise is ready to run.
Resumable(t) == HasTop(t, "wait") /\ attempt[Top(t).wait].st \in {"ok", "fail"}
MicrotaskPending == \E t \in Task : Resumable(t)

\* ---------------------------------------------------------------- session
\* Faulty variant: authenticate() without the check for an attempt in progress.
HasAuthPromise_Never(p) == FALSE

\* authenticate(): `if (this.authPromise)`.
HasAuthPromise(p) == p # None

\* Faulty variant: authenticate() that does not keep the promise it created.
StoredPromise_Dropped(k) == None

\* authenticate(): `this.authPromise = this.performAuthentication()`.
StoredPromise(k) == k

\* Faulty variant: a 401 handler that does not look at config._retry.
ShouldReauth_IgnoresRetry(status, retry) == status = Unauthorized

\* The 401 handler: `error.response?.status === 401 && !error.config._retry`.
ShouldReauth(status, retry) == status = Unauthorized /\ ~retry

\* Faulty variant: a request interceptor that leaves the Cookie header of
\* the config as it finds it.
AttachCookie_KeepsHeader(cur, hdr) == hdr

\* The request interceptor: `if (this.sessionCookies)` the Cookie header of
\* the config (hdr: what it holds already) becomes the stored token.
AttachCookie(cur, hdr) == IF cur # None THEN cur ELSE hdr

\* The response interceptor's success handler: save the set-cookie header.
SaveCookies(cur, r) == IF r.setCookie # None THEN r.setCookie ELSE cur

\* performAuthentication(): what the promise rejects with for a login that
\* got response r and was not handed to the 401 handler.
LoginError(r) ==
  IF r.status = StatusOk THEN Err("AuthenticationFailed", NoStatus, "fail", r.status)
  ELSE IF r.status # NoStatus THEN Err("AuthenticationFailed", r.status, "fail", r.status)
  ELSE Err("axios", NoStatus, "none", NoStatus)

\* request(): what it throws for a response r that is an error.
RequestError(r) ==
  IF r.status = StatusOk THEN Err("Error", NoStatus, "fail", r.status)
  ELSE IF r.status # NoStatus THEN Err("body", NoStatus, "fail", r.status)
  ELSE Err("axios", NoStatus, "none", NoStatus)

\* authenticate() with an attempt in progress: `return this.authPromise`.
\* Task t (record tk) awaits that promise from frame `caller`, on top of the
\* frames `rest`.
Join(t, tk, caller, rest) ==
  tasks' = [tasks EXCEPT ![t] = [tk EXCEPT
              !.frames = Append(rest, [caller EXCEPT !.st = "wait",
                                    !.wait = authPromise, !.owner = FALSE])]]

\* authenticate() with no attempt in progress: performAuthentication() sends
\* the login, its promise is stored and awaited. `att` is the attempt table
\* to update.
StartLogin(t, tk, caller, rest, att) ==
  /\ attempts < MaxAttempts
  /\ LET k == attempts + 1 IN
     /\ attempts' = k
     /\ authPromise' = StoredPromise(k)
     /\ attempt' = [att EXCEPT ![k].st = "pending", ![k].by = t]
     /\ loginSends' = [loginSends EXCEPT ![k] = @ + 1]
     /\ tasks' = [tasks EXCEPT ![t] = [tk EXCEPT
                    !.frames = rest \o
                      << [caller EXCEPT !.st = "wait", !.wait = k, !.owner = TRUE],
                         Frame("login", "wire", k,
                               AttachCookie(sessionCookies, None)) >>]]

\* authenticate(), called by task t from frame `caller`.
Authenticate(t, tk, caller, rest, att) ==
  IF HasAuthPromise(authPromise)
  THEN /\ Join(t, tk, caller, rest)
       /\ attempt' = att
       /\ UNCHANGED <<authPromise, attempts, loginSends>>
  ELSE StartLogin(t, tk, caller, rest, att)

\* A caller invokes client.authenticate().
CallAuthenticate(t) ==
  /\ ~MicrotaskPending
  /\ tasks[t].pc = "idle"
  /\ Authenticate(t, [tasks[t] EXCEPT !.pc = "busy", !.op = "authenticate"],
                  Frame("authcall", "wait", None, None), <<>>, attempt)
  /\ UNCHANGED <<sessionCookies, srvTok, resVars, macVars, libVars>>

\* A caller invokes client.request(): the request interceptor attaches the
\* stored cookie and the request goes out.
CallRequest(t) ==
  /\ ~MicrotaskPending
  /\ tasks[t].pc = "idle"
  /\ tasks' = [tasks EXCEPT ![t] = [@ EXCEPT !.pc = "busy", !.op = "request",
                  !.frames = << Frame("req", "wire", None,
                                   AttachCookie(sessionCookies, None)) >>]]
  /\ UNCHANGED <<authPromise, sessionCookies, attempt, attempts, loginSends,
                 srvTok, resVars, macVars, libVars>>

\* The remote answers the exchange task t has on the wire, as it likes;
\* it hands out at most maxTok session cookies.
ServerAnswers(t, maxTok) ==
  /\ HasTop(t, "wire")
  /\ \E status \in Statuses, ok \in BOOLEAN, fresh \in BOOLEAN :
       /\ status # StatusOk => ~ok
       /\ fresh => status # NoStatus /\ srvTok < maxTok
       /\ srvTok' = IF fresh THEN srvTok + 1 ELSE srvTok
       /\ tasks' = [tasks EXCEPT ![t].frames[Len(tasks[t].frames)] =
            [@ EXCEPT !.st = "answered",
                      !.resp = [status |-> status, ok |-> ok,
                                setCookie |-> IF fresh THEN srvTok + 1 ELSE None]]]
  /\ UNCHANGED <<authPromise, sessionCookies, attempt, attempts, loginSends,
                 resVars, macVars, libVars>>

ServerHandle(t) == ServerAnswers(t, MaxTokens)

\* The response of task t's exchange reaches the client: the response
\* interceptor, then request() or performAuthentication().
\* (attempt[k].resp records the login response received, for every outcome.)
ClientReceive(t) ==
  /\ ~MicrotaskPending
  /\ HasTop(t, "answered")
  /\ LET f == Top(t)
         r == f.resp
         seen == IF f.kind = "login" THEN [attempt EXCEPT ![f.att].resp = r]
                 ELSE attempt
     IN
     IF r.status = StatusOk
     THEN /\ sessionCookies' = SaveCookies(sessionCookies, r)
          /\ IF f.kind = "login"
             THEN /\ attempt' = [seen EXCEPT
                        ![f.att].st = IF r.ok THEN "ok" ELSE "fail",
                        ![f.att].err = IF r.ok THEN NoErr ELSE LoginError(r)]
                  /\ tasks' = [tasks EXCEPT ![t].frames = Rest(t)]
             ELSE /\ tasks' = [tasks EXCEPT ![t] = [@ EXCEPT
                        !.pc = IF r.ok THEN "resolved" ELSE "rejected",
                        !.err = IF r.ok THEN NoErr ELSE RequestError(r),
                        !.frames = Append(Rest(t), Done(f))]]
                  /\ attempt' = seen
          /\ UNCHANGED <<authPromise, attempts, loginSends>>
     ELSE IF ShouldReauth(r.status, f.retry)
     THEN /\ Authenticate(t, tasks[t], [f EXCEPT !.retry = TRUE], Rest(t), seen)
          /\ UNCHANGED sessionCookies
     ELSE /\ IF f.kind = "login"
             THEN /\ attempt' = [seen EXCEPT ![f.att].st = "fail",
                                             ![f.att].err = LoginError(r)]
                  /\ tasks' = [tasks EXCEPT ![t].frames = Rest(t)]
             ELSE /\ tasks' = [tasks EXCEPT ![t] = [@ EXCEPT
                        !.pc = "rejected", !.err = RequestError(r),
                        !.frames = Append(Rest(t), Done(f))]]
                  /\ attempt' = seen
          /\ UNCHANGED <<authPromise, sessionCookies, attempts, loginSends>>
  /\ UNCHANGED <<srvTok, resVars, macVars, libVars>>

\* The continuation of task t after the authentication promise it awaits
\* has settled: the owner's `finally`, then the caller's return, the 401
\* handler's replay `this.axiosInstance(error.config)`, or the rethrow.
Resume(t) ==
  /\ Resumable(t)
  /\ LET f == Top(t)
         a == attempt[f.wait]
     IN
     /\ authPromise' = IF f.owner THEN None ELSE authPromise
     /\ IF f.kind = "authcall"
        THEN /\ tasks' = [tasks EXCEPT ![t] = [@ EXCEPT
                   !.pc = IF a.st = "ok" THEN "resolved" ELSE "rejected",
                   !.err = a.err,
                   !.frames = Append(Rest(t), Done(f))]]
             /\ UNCHANGED <<attempt, loginSends>>
        ELSE IF a.st = "ok"
        THEN /\ tasks' = [tasks EXCEPT ![t].frames = Append(Rest(t),
                   [f EXCEPT !.st = "wire", !.sends = @ + 1, !.owner = FALSE,
                             !.cookie = AttachCookie(sessionCookies, f.cookie),
                             !.resp = NoResp])]
             /\ loginSends' = IF f.kind = "login"
                              THEN [loginSends EXCEPT ![f.att] = @ + 1]
                              ELSE loginSends
             /\ UNCHANGED attempt
        ELSE IF f.kind = "login"
        THEN /\ attempt' = [attempt EXCEPT ![f.att].st = "fail",
                                           ![f.att].err = a.err]
             /\ tasks' = [tasks EXCEPT ![t].frames = Rest(t)]
             /\ UNCHANGED loginSends
        ELSE /\ tasks' = [tasks EXCEPT ![t] = [@ EXCEPT
                   !.pc = "rejected", !.err = a.err,
                   !.frames = Append(Rest(t), Done(f))]]
             /\ UNCHANGED <<attempt, loginSends>>
  /\ UNCHANGED <<sessionCookies, attempts, srvTok, resVars, macVars, libVars>>

InitSession ==
  /\ authPromise = None
  /\ sessionCookies = None
  /\ tasks = [t \in Task |-> IdleTask]
  /\ attempt = [k \in AttemptId |->
                 [st |-> "unused", by |-> None, err |-> NoErr, resp |-> NoResp]]
  /\ attempts = 0
  /\ loginSends = [k \in AttemptId |-> 0]
  /\ srvTok = 0
  /\ sentAt = [t \in Task |-> {}]

\* =========================================================================
\* Resource layer: BaseResource and its subclasses over request()
\* =========================================================================

\* ---------------------------------------------------------- JS values
\* A body handed to a resource method: its constructor and its own keys.
\* ctor "Null" is null/undefined, "Instance" an object of some class.
\* A key maps to Absent (not there, reads as undefined) or to a value;
\* "zero", "empty" and "null" are the falsy values 0, '' and null.
Absent == "absent"
Keys == {"name", "campaign_name", "budget", "campaign_budget", "budget_type",
         "creative_name", "type", "creative_type", "attributes",
         "creative_attributes", "line_item_name", "line_item_type",
         "line_item_budget", "id", "line_item_id", "spend_budget",
         "frequency_caps", "idx0", "other", "campaign_id", "created_date",
         "start_date", "end_date", "active", "creative_asset_id"}
EmptyFields == [k \in Keys |-> Absent]
Obj(ctor, f) == [ctor |-> ctor, f |-> f]
Truthy(v) == v \notin {Absent, "null", "zero", "empty"}
Defined(v) == v # Absent
Or(v, w) == IF Truthy(v) THEN v ELSE w
Put(o, k, v) == [o EXCEPT !.f[k] = v]
Del(o, k) == [o EXCEPT !.f[k] = Absent]
\* {...body}: the own keys of body in a plain object; null spreads to {}.
Spread(b) == Obj("Object", b.f)
\* Object.keys(body).length === 0
NoKeys(b) == \A k \in Keys : b.f[k] = Absent

\* helpers.ts isPOJO: !!(value && value.constructor === Object)
isPOJO(b) == b.ctor = "Object"

\* `code: 400` of the validation and not-found responses; also used as the
\* HTTP status of a request the remote rejects.
BadRequest == 400
\* `code: 410` of TargetingTemplateResource.create.
Gone == 410

\* --------------------------------------------------- remote replies
\* A message of payload[0].message: pre is its beginning, act the word
\* after "to".
Msg(pre, act) == [pre |-> pre, act |-> act]
NoMsg == Msg("none", "none")
NotFoundMsg(act) == Msg("Could not load object", act)
OtherMsg == Msg("other", "none")

\* The identity of a record that lacks its id field (campaign_id,
\* line_item_id, ...): truthy as a payload, its id reads as undefined.
Anon == -1

\* A response body. success: the flag ("undef" when absent); pid: payload.id;
\* top: a top-level id (the v2 endpoint answers with the bare object);
\* first: the identity of payload[0]; msg: payload[0].message[0];
\* wrapped: the payload sits under a key `error` instead of at the top.
Data(success, pid, top, first, msg, wrapped) ==
  [success |-> success, pid |-> pid, top |-> top, first |-> first,
   msg |-> msg, wrapped |-> wrapped]
NoData == Data("undef", None, None, None, NoMsg, FALSE)
Reply(status, data) == [status |-> status, data |-> data]

\* What the remote may answer to one request.
Replies ==
  { Reply(StatusOk, Data("true", 1, None, None, NoMsg, FALSE)),
    Reply(StatusOk, Data("true", 2, None, None, NoMsg, FALSE)),
    Reply(StatusOk, Data("true", None, None, 1, NoMsg, FALSE)),
    Reply(StatusOk, Data("true", None, None, 2, NoMsg, FALSE)),
    Reply(StatusOk, Data("true", None, None, Anon, NoMsg, FALSE)),
    Reply(StatusOk, Data("true", None, None, None, NoMsg, FALSE)),
    Reply(StatusOk, Data("undef", None, 1, None, NoMsg, FALSE)),
    Reply(StatusOk, NoData),
    Reply(StatusOk, Data("false", None, None, None, OtherMsg, FALSE)),
    Reply(BadRequest, Data("false", None, None, None, OtherMsg, FALSE)),
    Reply(BadRequest, Data("false", None, None, None, NotFoundMsg("delete"), FALSE)),
    Reply(BadRequest, Data("false", None, None, None, NotFoundMsg("update"), FALSE)),
    Reply(BadRequest, Data("false", None, None, None, NotFoundMsg("delete"), TRUE)),
    Reply(BadRequest, Data("false", None, None, None, NotFoundMsg("update"), TRUE)),
    Reply(NoStatus, NoData) }

\* ------------------------------------------------------------ request()
\* A thrown value. shape "data": error.response.data, the response body;
\* "Error": new Error(JSON.stringify(response.data)); "axios": the axios
\* error itself; "TypeError": a property read on null.
Thrown(shape, data) == [shape |-> shape, data |-> data]
NoThrown == Thrown("none", NoData)

\* Faulty variant: request() that returns the body of every 200 response.
RequestOutcome_StatusOnly(reply) ==
  IF reply.status = StatusOk
  THEN [threw |-> FALSE, val |-> Thrown("none", reply.data)]
  ELSE IF reply.status # NoStatus
       THEN [threw |-> TRUE, val |-> Thrown("data", reply.data)]
       ELSE [threw |-> TRUE, val |-> Thrown("axios", NoData)]

\* BeeswaxClient.request(): returns response.data, or throws.
RequestOutcome(reply) ==
  IF reply.status = StatusOk
  THEN IF reply.data.success = "false"
       THEN [threw |-> TRUE, val |-> Thrown("Error", reply.data)]
       ELSE [threw |-> FALSE, val |-> Thrown("none", reply.data)]
  ELSE IF reply.status # NoStatus
       THEN [threw |-> TRUE, val |-> Thrown("data", reply.data)]
       ELSE [threw |-> TRUE, val |-> Thrown("axios", NoData)]

\* error.error?.payload?.[0]?.message || [] : the messages isNotFoundError
\* reads off a thrown value. Only a thrown response body has own keys, and
\* only one that keeps its payload under `error` has that key.
MessagesOf(e) ==
  IF e.shape = "data" /\ e.data.wrapped /\ e.data.msg # NoMsg
  THEN {e.data.msg} ELSE {}

\* new RegExp(`Could not load object.*to ${action}`).test(msg)
Matches(m, action) == m.pre = "Could not load object" /\ m.act = action

\* BaseResource.isNotFoundError
isNotFoundError(e, action) == \E m \in MessagesOf(e) : Matches(m, action)

\* ------------------------------------------------------------ results
\* What a resource call settles with: a BeeswaxResponse (success flag,
\* code, identity of the payload record) or a thrown value.
Result(kind, success, code, pay, thrown) ==
  [kind |-> kind, success |-> success, code |-> code, pay |-> pay,
   thrown |-> thrown]
NoResult == Result("none", "undef", None, None, NoThrown)
Resolved(success, code, pay) == Result("resolved", success, code, pay, NoThrown)
Threw(e) == Result("threw", "undef", None, None, e)

\* `return response` with the body request() returned: its payload is the
\* raw one (an array, or a record with `id`), which has no entity id field.
ResponseOf(d) ==
  Resolved(d.success, None,
           IF d.pid # None \/ d.first # None THEN Anon ELSE None)

\* The catch block of edit and delete.
NotFoundCatch(e, action, failOnNotFound) ==
  IF isNotFoundError(e, action) /\ ~failOnNotFound
  THEN Resolved("false", BadRequest, None)
  ELSE Threw(e)

\* ------------------------------------------------- request shaping
\* CampaignResource.create: budget_type default and the legacy field names.
CampaignCreateData(body) ==
  LET d0 == Put(Spread(body), "budget_type",
                IF Defined(body.f["budget_type"]) THEN body.f["budget_type"]
                ELSE "two")
      d1 == IF Truthy(body.f["name"]) \/ Truthy(body.f["campaign_name"])
            THEN Del(Put(d0, "campaign_name",
                         Or(body.f["campaign_name"], body.f["name"])), "name")
            ELSE d0
  IN IF Defined(body.f["budget"]) \/ Defined(body.f["campaign_budget"])
     THEN Del(Put(d1, "campaign_budget",
                  IF Defined(body.f["campaign_budget"])
                  THEN body.f["campaign_budget"] ELSE body.f["budget"]), "budget")
     ELSE d1

\* CampaignResource.edit: the legacy field names.
CampaignEditData(body) ==
  LET d0 == Spread(body)
      d1 == IF Truthy(body.f["name"]) \/ Truthy(body.f["campaign_name"])
            THEN Del(Put(d0, "campaign_name",
                         Or(body.f["campaign_name"], body.f["name"])), "name")
            ELSE d0
  IN IF Defined(body.f["budget"]) \/ Defined(body.f["campaign_budget"])
     THEN Del(Put(d1, "campaign_budget",
                  IF Defined(body.f["campaign_budget"])
                  THEN body.f["campaign_budget"] ELSE body.f["budget"]), "budget")
     ELSE d1

\* LineItemResource.create: the v2 field names and defaults.
LineItemCreateData(body) ==
  LET d0 == Spread(body)
      d1 == IF Truthy(body.f["line_item_name"]) /\ ~Truthy(d0.f["name"])
            THEN Del(Put(d0, "name", body.f["line_item_name"]), "line_item_name")
            ELSE d0
      d2 == IF Truthy(body.f["line_item_type"]) /\ ~Truthy(d1.f["type"])
            THEN Del(Put(d1, "type", body.f["line_item_type"]), "line_item_type")
            ELSE d1
      d3 == IF Defined(body.f["line_item_budget"]) /\ ~Truthy(d2.f["budget"])
            THEN Del(Put(d2, "budget", body.f["line_item_budget"]), "line_item_budget")
            ELSE d2
      d4 == IF ~Truthy(d3.f["type"]) THEN Put(d3, "type", "banner") ELSE d3
      d5 == Del(Put(d4, "id", "null"), "line_item_id")
      d6 == IF ~Truthy(d5.f["spend_budget"])
            THEN Put(d5, "spend_budget", "defaultSpend") ELSE d5
  IN IF ~Truthy(d6.f["frequency_caps"])
     THEN Put(d6, "frequency_caps", "null") ELSE d6

\* typeof typeValue === 'string'
IsString(v) == v \in {"empty", "a", "b", "display", "banner", "video",
                      "native", "Display", "VIDEO", "weird", "constructor"}
\* typeValue.toLowerCase()
ToLowerCase(v) == CASE v = "Display" -> "display"
                    [] v = "VIDEO" -> "video"
                    [] OTHER -> v
\* CreativeResource.create: typeMap lookup, the value itself when not there.
\* typeMap is an object literal, so typeMap[key] also finds what every
\* object inherits: typeMap['constructor'] is the function Object.
TypeCode(v) ==
  IF ~IsString(v) THEN v
  ELSE CASE ToLowerCase(v) \in {"display", "banner"} -> "zero"
         [] ToLowerCase(v) = "video" -> "one"
         [] ToLowerCase(v) = "native" -> "two"
         [] ToLowerCase(v) = "constructor" -> "ObjectFunction"
         [] OTHER -> v

\* CreativeResource.create: the legacy field names and the numeric type.
CreativeCreateData(body) ==
  LET d0 == Spread(body)
      d1 == IF Truthy(body.f["name"]) \/ Truthy(body.f["creative_name"])
            THEN Del(Put(d0, "creative_name",
                         Or(body.f["creative_name"], body.f["name"])), "name")
            ELSE d0
      typeValue == IF Defined(body.f["creative_type"])
                   THEN body.f["creative_type"] ELSE body.f["type"]
      d2 == IF Defined(typeValue)
            THEN Del(Put(d1, "creative_type", TypeCode(typeValue)), "type")
            ELSE d1
  IN IF Truthy(body.f["attributes"]) \/ Truthy(body.f["creative_attributes"])
     THEN Del(Put(d2, "creative_attributes",
                  Or(body.f["creative_attributes"], body.f["attributes"])),
              "attributes")
     ELSE d2

\* The resources of the client; the second set overrides create or edit.
Resources == {"campaign", "line_item", "creative", "targeting_template",
              "advertiser", "creative_line_item", "creative_asset",
              "segment", "report"}
Ops == {"create", "edit", "delete", "find", "query"}

\* The method of resource res reads a property of its body before any
\* check: on null that read throws a TypeError.
ReadsBody(res, op) ==
  \/ op = "create" /\ res \in {"campaign", "line_item", "creative"}
  \/ op = "edit" /\ res = "campaign"

\* The body the method hands on, after its own request shaping.
Shaped(res, op, body) ==
  CASE res = "campaign" /\ op = "create" -> CampaignCreateData(body)
    [] res = "campaign" /\ op = "edit" -> CampaignEditData(body)
    [] res = "line_item" /\ op = "create" -> LineItemCreateData(body)
    [] res = "creative" /\ op = "create" -> CreativeCreateData(body)
    [] OTHER -> body

\* A request handed to request(): method, resource, path variant, the id
\* it names (find, edit, delete) and its body.
Request(method, res, path, id, data) ==
  [method |-> method, res |-> res, path |-> path, id |-> id, data |-> data]
NoBody == Obj("Object", EmptyFields)

\* BaseResource.create/edit: `!isPOJO(body) || Object.keys(body).length === 0`
Invalid(body) == ~isPOJO(body) \/ NoKeys(body)
ValidationFailure == Resolved("false", BadRequest, None)

\* The synchronous start of a resource method: it settles at once
\* (step "done") or sends its first request.
Start(res, op, id, body) ==
  IF op \in {"create", "edit"} /\ res = "targeting_template" /\ op = "create"
  THEN [step |-> "done", out |-> Resolved("false", Gone, None), req |-> <<>>]
  ELSE IF op \in {"create", "edit"} /\ ReadsBody(res, op) /\ body.ctor = "Null"
  THEN [step |-> "done", out |-> Threw(Thrown("TypeError", NoData)), req |-> <<>>]
  ELSE IF op = "create" /\ res = "line_item"
  THEN [step |-> "li-post", out |-> NoResult,
        req |-> <<Request("POST", res, "v2", None, Shaped(res, op, body))>>]
  ELSE IF op \in {"create", "edit"} /\ Invalid(Shaped(res, op, body))
  THEN [step |-> "done", out |-> ValidationFailure, req |-> <<>>]
  ELSE IF op = "create"
  THEN [step |-> "create-post", out |-> NoResult,
        req |-> <<Request("POST", res, "strict", None, Shaped(res, op, body))>>]
  ELSE IF op = "edit"
  THEN [step |-> "edit-put", out |-> NoResult,
        req |-> <<Request("PUT", res, "strict", id, Shaped(res, op, body))>>]
  ELSE IF op = "delete"
  THEN [step |-> "delete", out |-> NoResult,
        req |-> <<Request("DELETE", res, "strict", id, NoBody)>>]
  ELSE IF op = "query"
  THEN [step |-> "query", out |-> NoResult,
        req |-> <<Request("GET", res, "plain", None, NoBody)>>]
  ELSE [step |-> "find", out |-> NoResult,
        req |-> <<Request("GET", res, "plain", id, NoBody)>>]

\* Faulty variant: the follow-up find looks the id up in payload[0].
AssignedId_FirstOfList(d) == d.first

\* BaseResource.create: `response.payload.id`, the id the follow-up find
\* is given.
AssignedId(d) == d.pid

\* Faulty variant: a targeting template query without its try/catch.
QueryCatch_Rethrows(res, e) == Threw(e)

\* query() when request() threw e: TargetingTemplateResource.query catches
\* everything and resolves with `success: true, payload: []` (an empty
\* list has no first record: pay is None); BaseResource.query has no catch.
QueryCatch(res, e) ==
  IF res = "targeting_template" THEN Resolved("true", None, None)
  ELSE Threw(e)

\* The method's continuation when request() has settled with outcome o:
\* it settles (step "done") or sends a follow-up find.
Continue(c, o) ==
  LET d == o.val.data
      done(r) == [step |-> "done", out |-> r, req |-> <<>>]
      find(step, id) == [step |-> step, out |-> NoResult,
                         req |-> <<Request("GET", c.res, "plain", id, NoBody)>>]
  IN
  CASE c.step = "create-post" ->
         IF o.threw THEN done(Threw(o.val))
         ELSE IF d.success = "true" /\ d.pid # None
              THEN find("create-find", AssignedId(d))
         ELSE done(ResponseOf(d))
    [] c.step = "create-find" ->
         IF o.threw THEN done(Threw(o.val))
         ELSE done(Resolved("true", None, d.first))
    [] c.step = "li-post" ->
         IF o.threw THEN done(Threw(o.val))
         ELSE IF d.top # None THEN done(Resolved("true", None, d.top))
         ELSE IF d.success # "undef" THEN done(ResponseOf(d))
         ELSE done(Resolved("false", None, None))
    [] c.step = "edit-put" ->
         IF o.threw THEN done(NotFoundCatch(o.val, "update", c.failOnNotFound))
         ELSE find("edit-find", c.id)
    [] c.step = "edit-find" ->
         IF o.threw THEN done(NotFoundCatch(o.val, "update", c.failOnNotFound))
         ELSE done(Resolved("true", None, d.first))
    [] c.step = "delete" ->
         IF o.threw THEN done(NotFoundCatch(o.val, "delete", c.failOnNotFound))
         ELSE done(Resolved("true", None, d.first))
    [] c.step = "query" ->
         IF o.threw THEN done(QueryCatch(c.res, o.val))
         ELSE done(Resolved("true", None, d.first))
    [] c.step = "find" ->
         IF o.threw THEN done(Threw(o.val))
         ELSE done(Resolved("true", None, d.first))

\* ------------------------------------------------------------ inputs
\* The values a caller may give each key (besides leaving it out).
FieldVals(res, k) ==
  CASE res = "line_item" /\ k = "name" -> {Absent, "empty", "a"}
    [] res = "line_item" /\ k = "budget" -> {Absent, "zero", "a"}
    [] res = "line_item" /\ k = "line_item_budget" -> {Absent, "zero", "b"}
    [] res = "line_item" /\ k \in {"line_item_name", "line_item_type"} -> {Absent, "b"}
    [] res = "line_item" -> {Absent, "a"}
    [] k \in {"name", "campaign_name", "creative_name"} -> {Absent, "empty", "a", "b"}
    [] k \in {"budget", "campaign_budget"} -> {Absent, "zero", "a", "b"}
    [] k \in {"type", "creative_type"} ->
         {Absent, "display", "VIDEO", "weird", "constructor", "zero", "one"}
    [] OTHER -> {Absent, "a"}

\* The keys a caller varies in a body for the method.
InputKeys(res, op) ==
  CASE res = "campaign" /\ op \in {"create", "edit"} ->
         {"name", "campaign_name", "budget", "campaign_budget", "budget_type"}
    [] res = "creative" /\ op = "create" ->
         {"name", "creative_name", "type", "creative_type", "attributes",
          "creative_attributes"}
    [] res = "line_item" /\ op = "create" ->
         {"name", "line_item_name", "type", "line_item_type", "budget",
          "line_item_budget", "line_item_id", "spend_budget", "frequency_caps"}
    [] OTHER -> {"other"}

\* The field tables that give each key of ks one of its values and leave
\* every other key out.
RECURSIVE FieldsOver(_, _)
FieldsOver(res, ks) ==
  IF ks = {} THEN {EmptyFields}
  ELSE LET k == CHOOSE x \in ks : TRUE IN
       { [g EXCEPT ![k] = v] : g \in FieldsOver(res, ks \ {k}),
                               v \in FieldVals(res, k) }

\* Plain objects over the method's keys, and the bodies that are not plain
\* objects: null, an array (empty or not), a class instance.
Bodies(res, op) ==
  { Obj("Object", f) : f \in FieldsOver(res, InputKeys(res, op)) }
  \cup { Obj("Null", EmptyFields), Obj("Array", EmptyFields),
         Obj("Array", [EmptyFields EXCEPT !["idx0"] = "a"]),
         Obj("Instance", [EmptyFields EXCEPT !["other"] = "a"]) }

\* ------------------------------------------------------------ actions
IdleCall == [pc |-> "idle", res |-> "none", op |-> "none", id |-> None,
             body |-> NoBody, failOnNotFound |-> FALSE, step |-> "none",
             replies |-> <<>>, out |-> NoResult]

\* A caller invokes client.<res>.<op>(...).
ResInvoke(res, op, body, failOnNotFound) ==
  /\ rcall.pc = "idle"
  /\ LET s == Start(res, op, 1, body) IN
     /\ rcall' = [IdleCall EXCEPT
                    !.pc = IF s.step = "done" THEN "done" ELSE "wire",
                    !.res = res, !.op = op,
                    !.id = IF op \in {"create", "query"} THEN None ELSE 1,
                    !.body = body, !.failOnNotFound = failOnNotFound,
                    !.step = s.step, !.out = s.out]
     /\ rsent' = s.req
  /\ UNCHANGED <<sessVars, macVars, libVars>>

\* request() settles for the request on the wire and the method goes on.
ResReply(reply) ==
  /\ rcall.pc = "wire"
  /\ LET s == Continue(rcall, RequestOutcome(reply)) IN
     /\ rcall' = [rcall EXCEPT
                    !.pc = IF s.step = "done" THEN "done" ELSE "wire",
                    !.step = s.step, !.out = s.out,
                    !.replies = Append(@, reply)]
     /\ rsent' = rsent \o s.req
  /\ UNCHANGED <<sessVars, macVars, libVars>>

InitResource ==
  /\ rcall = IdleCall
  /\ rsent = <<>>

\* The calls a caller may make: failOnNotFound exists on edit and delete,
\* a body on create and edit.
ResCall ==
  /\ rcall.pc = "idle"
  /\ \E res \in Resources, op \in Ops, failOnNotFound \in BOOLEAN :
       /\ failOnNotFound => op \in {"edit", "delete"}
       /\ \E body \in (IF op \in {"create", "edit"} THEN Bodies(res, op)
                        ELSE {NoBody}) :
            ResInvoke(res, op, body, failOnNotFound)

ResAnswer ==
  /\ rcall.pc = "wire"
  /\ \E reply \in Replies : ResReply(reply)

NextResource == ResCall \/ ResAnswer

\* ------------------------------------------------------------ macros
\* The sub-call a macro awaits: a resource method (its step as in Start and
\* Continue), BaseResource.query (step "query") or a bare client.request()
\* (step "raw").
NoCall == [res |-> "none", op |-> "none", step |-> "none", id |-> None,
           failOnNotFound |-> FALSE]
Call(res, op, step, id) == [res |-> res, op |-> op, step |-> step, id |-> id,
                            failOnNotFound |-> FALSE]

\* What a macro settles with: it resolves to an object whose success field
\* is "true", "false" or missing ("undef"), or it rejects.
MacOut(kind, success) == [kind |-> kind, success |-> success]
NoMacOut == MacOut("none", "undef")

\* The requests a macro call has handed to request() are kept as the set of
\* their kinds: method, resource and path variant.
Sent(method, res, path) == [method |-> method, res |-> res, path |-> path]
LogOf(reqs) ==
  { Sent(reqs[k].method, reqs[k].res, reqs[k].path) : k \in 1..Len(reqs) }

NoCounts == [line_items |-> 0, creatives |-> 0, creative_line_items |-> 0,
             targeting_templates |-> 0]

IdleMacro ==
  [pc |-> "idle", op |-> "none", at |-> "none", call |-> NoCall,
   val |-> NoResult, nItems |-> 0, nCreatives |-> 0, nTemplates |-> 0,
   asset |-> FALSE, cloneCreatives |-> FALSE, i |-> 0, j |-> 0, t |-> 0,
   campaign |-> NoResult, campaignId |-> None, lineItemId |-> None,
   result |-> NoCounts, created |-> 0, errors |-> 0, updated |-> 0,
   failed |-> 0, threw |-> FALSE, log |-> {}, out |-> NoMacOut,
   listed |-> 0, cliListed |-> 0, cloned |-> FALSE,
   active |-> FALSE, activeSent |-> {}, creativeId |-> None, allOk |-> TRUE,
   uploadFailed |-> FALSE, assetRef |-> FALSE, campaignRefs |-> {}]

\* The bodies the macros build: every one is a non-empty plain object.
CampaignData ==
  Obj("Object", [EmptyFields EXCEPT !["name"] = "a", !["budget"] = "a",
                                    !["budget_type"] = "two", !["other"] = "a"])
LineItemData ==
  Obj("Object", [EmptyFields EXCEPT !["name"] = "a", !["type"] = "banner",
                                    !["budget_type"] = "a", !["spend_budget"] = "a",
                                    !["frequency_caps"] = "null", !["other"] = "a"])
CreativeData ==
  Obj("Object", [EmptyFields EXCEPT !["name"] = "a", !["type"] = "display",
                                    !["other"] = "a", !["active"] = "false"])
\* `if (creativeAssetId) creativeData.creative_asset_id = creativeAssetId`
CreativeDataWith(assetId) ==
  IF assetId # None THEN Put(CreativeData, "creative_asset_id", "a")
  ELSE CreativeData
\* createFullCampaign hands createLineItem `active: lineItemOptions.active ||
\* false`, and createLineItem keeps a defined params.active.
FullLineItemData(active) ==
  Put(LineItemData, "active", IF active THEN "true" ELSE "false")
\* bulkCreateLineItems: `active: false`
BulkLineItemData == Put(LineItemData, "active", "false")
OtherData == Obj("Object", [EmptyFields EXCEPT !["other"] = "a"])
\* A campaign id as the value of a body key.
IdText(id) == CASE id = 1 -> "id1" [] id = 2 -> "id2" [] OTHER -> "null"

\* Faulty variant: the line item keeps the campaign_id of its source.
CloneLineItemData_KeepsCampaign(active, campaignId) ==
  Put(Put(OtherData, "active", IF active THEN "true" ELSE "false"),
      "campaign_id", IdText(1))

\* cloneCampaign: {...lineItemFields, campaign_id: newCampaign.campaign_id};
\* active is not among the keys taken out of the source line item.
CloneLineItemData(active, campaignId) ==
  Put(Put(OtherData, "active", IF active THEN "true" ELSE "false"),
      "campaign_id", IdText(campaignId))
CloneCampaignData ==
  Obj("Object", [EmptyFields EXCEPT !["name"] = "b", !["other"] = "a"])

\* BaseResource.query and a bare request() settle with the one request;
\* every other sub-call is a resource method. query's payload is
\* `response.payload || []`: here a list of at most one record, whose
\* identity (None for the empty list) is the result's pay.
Settle(c, o) ==
  LET d == o.val.data
      done(r) == [step |-> "done", out |-> r, req |-> <<>>]
  IN CASE c.step = "raw" ->
            IF o.threw THEN done(Threw(o.val))
            ELSE done(Resolved(d.success, None, d.pid))
       [] c.step = "query" ->
            IF o.threw THEN done(Threw(o.val))
            ELSE done(Resolved("true", None, d.first))
       [] OTHER -> Continue(c, o)

\* The resources a request of reqs creates a record of with active: true.
ActiveIn(reqs) ==
  { reqs[k].res : k \in { n \in 1..Len(reqs) :
       reqs[n].method = "POST" /\ reqs[n].data.f["active"] = "true" } }

\* The campaign_id values of the line item POSTs among reqs.
CampaignIn(reqs) ==
  { reqs[k].data.f["campaign_id"] : k \in { n \in 1..Len(reqs) :
       /\ reqs[n].method = "POST" /\ reqs[n].res = "line_item"
       /\ Defined(reqs[n].data.f["campaign_id"]) } }

\* Whether the creative POST among reqs names an asset; cur when reqs has
\* no creative POST.
AssetIn(reqs, cur) ==
  LET posts == { n \in 1..Len(reqs) :
                   reqs[n].method = "POST" /\ reqs[n].res = "creative" }
  IN IF posts = {} THEN cur
     ELSE \E n \in posts : Defined(reqs[n].data.f["creative_asset_id"])

\* The remote call succeeds: the reply to the request a sub-call is at (its
\* step) is a 200 that does not declare failure and carries what was asked
\* for: the new id for a POST, the record for a find.
Succeeds(step, reply) ==
  /\ reply.status = StatusOk
  /\ reply.data.success # "false"
  /\ CASE step = "create-post" -> reply.data.success = "true" /\ reply.data.pid # None
       [] step = "raw" -> reply.data.pid # None
       [] step = "li-post" -> reply.data.top # None
       [] step = "create-find" -> reply.data.first \notin {None, Anon}
       [] step \in {"find", "edit-find"} -> reply.data.first # None
       [] OTHER -> TRUE

\* `await client.<res>.<op>(...)`: the method runs up to its first request,
\* or settles without one.
Launch(m, at, res, op, id, body) ==
  LET s == Start(res, op, id, body) IN
  [m EXCEPT !.at = at, !.pc = IF s.step = "done" THEN "resume" ELSE "wire",
            !.call = Call(res, op, s.step, id), !.val = s.out,
            !.log = @ \cup LogOf(s.req),
            !.activeSent = @ \cup ActiveIn(s.req),
            !.assetRef = AssetIn(s.req, @),
            !.campaignRefs = @ \cup CampaignIn(s.req)]

\* `await this.request('POST', ...)` (step "raw") and
\* `await client.<res>.query(...)` (step "query").
LaunchRequest(m, at, step, method, res, path) ==
  [m EXCEPT !.at = at, !.pc = "wire", !.call = Call(res, "request", step, None),
            !.val = NoResult, !.log = @ \cup {Sent(method, res, path)}]

\* `await axios.head(sourceUrl)` / `await axios.get(sourceUrl)`: an exchange
\* with the asset's host, outside request().
LaunchExternal(m, at) ==
  [m EXCEPT !.at = at, !.pc = "ext", !.call = NoCall, !.val = NoResult]

\* `await delay(ms)`
Sleep(m, at) ==
  [m EXCEPT !.at = at, !.pc = "timer", !.call = NoCall, !.val = NoResult]

\* The macro settles.
Finish(m, kind, success) ==
  [m EXCEPT !.at = "end", !.pc = "done", !.call = NoCall, !.val = NoResult,
            !.out = MacOut(kind, success)]

\* Faulty variant: `response.success` alone.
Succeeded_IgnoresPayload(r) == r.kind = "resolved" /\ r.success = "true"

\* `response.success && response.payload`
Succeeded(r) == r.kind = "resolved" /\ r.success = "true" /\ r.pay # None
\* Faulty variant: any payload counts as carrying its id.
HasId_AnyPayload(r) == r.pay # None

\* The payload record has its id field.
HasId(r) == r.pay \notin {None, Anon}

\* Faulty variant: step 1 goes on whenever campaigns.create() did not throw.
CampaignReturned_Unchecked(r) == r.kind = "resolved"

\* createFullCampaign step 1 does not go on past campaigns.create() unless
\* it resolved with success, a payload and a campaign_id.
CampaignReturned(r) == r.kind = "resolved" /\ Succeeded(r) /\ HasId(r)

\* What a macro does when it has run to its next await or to its end, in
\* state m: it awaits a resource method, a bare request or a query, an
\* exchange with the asset's host, or a delay; or it settles.
Calls(m, at, res, op, id, body) ==
  [do |-> "call", m |-> m, at |-> at, res |-> res, op |-> op, id |-> id,
   body |-> body]
Requests(m, at, step, method, res, path) ==
  [do |-> "request", m |-> m, at |-> at, step |-> step, method |-> method,
   res |-> res, path |-> path]
Fetches(m, at) == [do |-> "fetch", m |-> m, at |-> at]
Sleeps(m, at) == [do |-> "sleep", m |-> m, at |-> at]
Returns(m, kind, success) ==
  [do |-> "return", m |-> m, kind |-> kind, success |-> success]

\* ---- createFullCampaign
\* The outer catch block: resolve with success false.
FullFail(m) == Returns(m, "resolved", "false")

\* creatives.create(creativeData) for the current creative; failed: its
\* asset upload threw; assetId: `creativeAssetId`.
StartCreative(m, failed, assetId) ==
  Calls([m EXCEPT !.uploadFailed = failed], "creative", "creative", "create",
        None, CreativeDataWith(assetId))

\* Faulty variant: a failed upload ends in the outer catch block.
AfterUploadFailure_Aborts(m) == FullFail([m EXCEPT !.uploadFailed = TRUE])

\* The catch around uploadCreativeAsset: log, go on without an asset id.
AfterUploadFailure(m) == StartCreative(m, TRUE, None)

\* The head of the line-item loop; createLineItem() starts with
\* campaigns.find(campaign_id).
NextLineItem(m) ==
  IF m.i < m.nItems
  THEN Calls(m, "li-find", "campaign", "find", m.campaignId, NoBody)
  ELSE Returns(m, "resolved", "true")

\* Faulty variant: the loop over line items goes on without the creatives
\* of the current line item.
NextCreative_LeavesEarly(m) == NextLineItem([m EXCEPT !.i = @ + 1, !.j = 0])

\* The head of the creatives loop of the current line item.
NextCreative(m) ==
  LET m0 == [m EXCEPT !.uploadFailed = FALSE, !.assetRef = FALSE] IN
  IF m.j < m.nCreatives
  THEN IF m.asset THEN Fetches(m0, "asset-head")
       ELSE StartCreative(m0, FALSE, None)
  ELSE NextLineItem([m0 EXCEPT !.i = @ + 1, !.j = 0])

\* The head of the targeting-template loop.
NextTemplate(m) ==
  IF m.t < m.nTemplates
  THEN Calls(m, "template", "targeting_template", "create", None, OtherData)
  ELSE NextLineItem(m)

\* createFullCampaign goes on after the await at m.at settled with r.
AfterFull(m, r) ==
  CASE m.at = "campaign" ->
         LET m1 == [m EXCEPT !.campaign = r] IN
         IF ~CampaignReturned(r) THEN FullFail(m1)
         ELSE NextTemplate([m1 EXCEPT !.campaignId = r.pay])
    [] m.at = "template" ->
         IF r.kind = "threw" THEN FullFail(m)
         ELSE NextTemplate([m EXCEPT !.t = @ + 1,
                !.result.targeting_templates = @ + IF Succeeded(r) THEN 1 ELSE 0])
    [] m.at = "li-find" ->
         IF r.kind = "threw" \/ ~Succeeded(r) THEN FullFail(m)
         ELSE Calls(m, "li-create", "line_item", "create", None,
                    FullLineItemData(m.active))
    [] m.at = "li-create" ->
         IF r.kind = "threw" THEN FullFail(m)
         ELSE IF ~Succeeded(r) THEN NextLineItem([m EXCEPT !.i = @ + 1])
         ELSE NextCreative([m EXCEPT !.result.line_items = @ + 1,
                !.lineItemId = IF HasId(r) THEN r.pay ELSE None, !.j = 0])
    [] m.at = "asset-head" ->
         Requests(m, "asset-post", "raw", "POST", "creative_asset", "plain")
    [] m.at = "asset-post" ->
         IF r.kind = "threw" \/ r.pay = None THEN AfterUploadFailure(m)
         ELSE Fetches(m, "asset-get")
    [] m.at = "asset-get" ->
         IF r.kind = "threw" THEN AfterUploadFailure(m)
         ELSE Requests(m, "asset-upload", "raw", "POST", "creative_asset", "upload")
    [] m.at = "asset-upload" ->
         IF r.kind = "threw" THEN AfterUploadFailure(m)
         ELSE Calls(m, "asset-find", "creative_asset", "find", 1, NoBody)
    [] m.at = "asset-find" ->
         IF r.kind = "threw" \/ r.pay = None THEN AfterUploadFailure(m)
         ELSE StartCreative(m, FALSE, IF HasId(r) THEN r.pay ELSE None)
    [] m.at = "creative" ->
         IF r.kind = "threw" THEN FullFail(m)
         ELSE IF ~Succeeded(r) THEN NextCreative([m EXCEPT !.j = @ + 1])
         ELSE LET m1 == [m EXCEPT !.result.creatives = @ + 1] IN
              IF ~HasId(r) \/ m.lineItemId = None
              THEN NextCreative([m1 EXCEPT !.j = @ + 1])
              ELSE Calls([m1 EXCEPT !.creativeId = r.pay],
                         "cli", "creative_line_item", "create", None, OtherData)
    [] m.at = "cli" ->
         IF r.kind = "threw" THEN FullFail(m)
         ELSE NextCreative([m EXCEPT !.j = @ + 1, !.creativeId = None,
                !.result.creative_line_items = @ + IF Succeeded(r) THEN 1 ELSE 0])

\* ---- cloneCampaign
CloneFail(m) == Returns(m, "resolved", "false")

\* BaseResource.query sends the filter as it is given, without rows or
\* offset: of n matching records the remote returns one page.
OnePage(n) == IF n < DefaultRows THEN n ELSE DefaultRows

\* The head of the loop over the line items the query returned.
NextClone(m) ==
  IF m.i < m.listed
  THEN Calls(m, "c-li-create", "line_item", "create", None,
             CloneLineItemData(m.active, m.campaignId))
  ELSE Returns(m, "resolved", "true")

\* The head of the loop over the associations the query returned: without
\* a new line_item_id every association is skipped.
NextCloneCli(m) ==
  IF m.j < m.cliListed /\ m.lineItemId # None
  THEN Calls(m, "c-cli-create", "creative_line_item", "create", None, OtherData)
  ELSE Sleeps(m, "c-delay")

AfterClone(m, r) ==
  CASE m.at = "c-find" ->
         IF r.kind = "threw" \/ ~Succeeded(r) THEN CloneFail(m)
         ELSE Calls(m, "c-create", "campaign", "create", None, CloneCampaignData)
    [] m.at = "c-create" ->
         LET m1 == [m EXCEPT !.campaign = r] IN
         IF r.kind = "threw" \/ ~Succeeded(r) \/ ~HasId(r) THEN CloneFail(m1)
         ELSE Requests([m1 EXCEPT !.campaignId = r.pay],
                            "c-li-query", "query", "GET", "line_item", "plain")
    [] m.at = "c-li-query" ->
         IF r.kind = "threw" THEN CloneFail(m)
         ELSE NextClone([m EXCEPT !.i = 0,
                !.listed = IF r.pay # None THEN OnePage(m.nItems) ELSE 0])
    [] m.at = "c-li-create" ->
         IF r.kind = "threw" THEN CloneFail(m)
         ELSE IF ~Succeeded(r) THEN Sleeps([m EXCEPT !.cloned = FALSE], "c-delay")
         ELSE LET m1 == [m EXCEPT !.result.line_items = @ + 1, !.cloned = TRUE,
                           !.j = 0,
                           !.lineItemId = IF HasId(r) THEN r.pay ELSE None] IN
              IF m.cloneCreatives
              THEN Requests(m1, "c-cli-query", "query", "GET",
                                 "creative_line_item", "plain")
              ELSE Sleeps(m1, "c-delay")
    [] m.at = "c-cli-query" ->
         IF r.kind = "threw" THEN CloneFail(m)
         ELSE NextCloneCli([m EXCEPT !.j = 0,
                !.cliListed = IF r.pay # None THEN OnePage(m.nCreatives) ELSE 0])
    [] m.at = "c-cli-create" ->
         IF r.kind = "threw" THEN CloneFail(m)
         ELSE NextCloneCli([m EXCEPT !.j = @ + 1,
                !.result.creative_line_items = @ + IF Succeeded(r) THEN 1 ELSE 0])
    [] m.at = "c-delay" -> NextClone([m EXCEPT !.i = @ + 1])

\* ---- bulkUpdateCampaignStatus
\* Faulty variant: the loop ends at the first id that failed.
NextUpdate_StopOnFailure(m) ==
  IF m.i < m.nItems /\ m.failed = 0
  THEN Calls(m, "u-edit", "campaign", "edit", m.i + 1, OtherData)
  ELSE Returns(m, "resolved", "true")

\* The head of the loop over campaignIds, here the ids 1..nItems in that
\* order.
NextUpdate(m) ==
  IF m.i < m.nItems
  THEN Calls(m, "u-edit", "campaign", "edit", m.i + 1, OtherData)
  ELSE Returns(m, "resolved", "true")

AfterUpdate(m, r) ==
  CASE m.at = "u-edit" ->
         IF r.kind = "resolved" /\ r.success = "true"
         THEN Sleeps([m EXCEPT !.updated = @ + 1], "u-delay")
         ELSE Sleeps([m EXCEPT !.failed = @ + 1], "u-delay")
    [] m.at = "u-delay" -> NextUpdate([m EXCEPT !.i = @ + 1])

\* ---- getCampaignPerformance
AfterReport(m, r) ==
  IF r.kind = "threw" THEN Returns(m, "resolved", "false")
  ELSE Returns(m, "resolved", r.success)

\* ---- bulkCreateLineItems
\* Faulty variant: the loop ends at the first item that failed.
NextBulk_AbortOnError(m) ==
  IF m.i < m.nItems /\ m.errors = 0
  THEN Calls(m, "b-li-find", "campaign", "find", 1, NoBody)
  ELSE Returns(m, "resolved", IF m.errors = 0 THEN "true" ELSE "false")

\* The head of the loop over lineItems; createLineItem() starts with
\* campaigns.find(campaign_id).
NextBulk(m) ==
  IF m.i < m.nItems
  THEN Calls(m, "b-li-find", "campaign", "find", 1, NoBody)
  ELSE Returns(m, "resolved", IF m.errors = 0 THEN "true" ELSE "false")

AfterBulk(m, r) ==
  CASE m.at = "b-find" ->
         LET m1 == [m EXCEPT !.campaign = r] IN
         IF r.kind = "threw" THEN Returns(m1, "rejected", "undef")
         ELSE IF ~Succeeded(r) THEN Returns(m1, "resolved", "false")
         ELSE NextBulk(m1)
    [] m.at = "b-li-find" ->
         IF r.kind = "threw" \/ ~Succeeded(r)
         THEN Sleeps([m EXCEPT !.errors = @ + 1], "b-delay")
         ELSE Calls(m, "b-li-create", "line_item", "create", None, BulkLineItemData)
    [] m.at = "b-li-create" ->
         IF Succeeded(r)
         THEN Sleeps([m EXCEPT !.created = @ + 1], "b-delay")
         ELSE Sleeps([m EXCEPT !.errors = @ + 1], "b-delay")
    [] m.at = "b-delay" -> NextBulk([m EXCEPT !.i = @ + 1])

Macros == {"createFullCampaign", "cloneCampaign", "bulkUpdateCampaignStatus",
           "getCampaignPerformance", "bulkCreateLineItems"}

\* The macro runs from its entry to its first await.
Begin(m) ==
  CASE m.op = "createFullCampaign" ->
         Calls(m, "campaign", "campaign", "create", None, CampaignData)
    [] m.op = "cloneCampaign" ->
         Calls(m, "c-find", "campaign", "find", 1, NoBody)
    [] m.op = "bulkUpdateCampaignStatus" -> NextUpdate(m)
    [] m.op = "getCampaignPerformance" ->
         Calls(m, "report", "report", "create", None, OtherData)
    [] m.op = "bulkCreateLineItems" ->
         Calls(m, "b-find", "campaign", "find", 1, NoBody)

\* The macro goes on after the await at m.at settled with m.val.
After(m) ==
  CASE m.op = "createFullCampaign" -> AfterFull(m, m.val)
    [] m.op = "cloneCampaign" -> AfterClone(m, m.val)
    [] m.op = "bulkUpdateCampaignStatus" -> AfterUpdate(m, m.val)
    [] m.op = "getCampaignPerformance" -> AfterReport(m, m.val)
    [] m.op = "bulkCreateLineItems" -> AfterBulk(m, m.val)

\* The macro state at the await (or the end) the macro has run to.
Run(c) ==
  CASE c.do = "call" -> Launch(c.m, c.at, c.res, c.op, c.id, c.body)
    [] c.do = "request" -> LaunchRequest(c.m, c.at, c.step, c.method, c.res, c.path)
    [] c.do = "fetch" -> LaunchExternal(c.m, c.at)
    [] c.do = "sleep" -> Sleep(c.m, c.at)
    [] c.do = "return" -> Finish(c.m, c.kind, c.success)

\* A caller invokes client.macros.<op>(...): nItems line items (campaign ids
\* for bulkUpdateCampaignStatus), each with nCreatives creatives, asset: the
\* creatives carry an asset_url; nTemplates targeting templates;
\* cloneCreatives: options.clone_creatives !== false. For cloneCampaign the
\* source campaign has nItems line items on the remote, each with
\* nCreatives creative associations. active: the active flag the caller
\* gives the line items (createFullCampaign) or the source line items
\* carry (cloneCampaign).
MacInvoke(op, nItems, nCreatives, nTemplates, asset, cloneCreatives, active) ==
  /\ mac.pc = "idle"
  /\ mac' = Run(Begin([IdleMacro EXCEPT !.op = op, !.nItems = nItems,
                     !.nCreatives = nCreatives, !.nTemplates = nTemplates,
                     !.asset = asset, !.cloneCreatives = cloneCreatives,
                     !.active = active]))
  /\ UNCHANGED <<sessVars, resVars, libVars>>

\* request() settles for the request on the wire; the awaited sub-call goes
\* on to its next request or settles.
MacReply(reply) ==
  /\ mac.pc = "wire"
  /\ LET o == RequestOutcome(reply)
         s == Settle(mac.call, o) IN
     mac' = [mac EXCEPT !.pc = IF s.step = "done" THEN "resume" ELSE "wire",
                        !.call.step = s.step, !.val = s.out,
                        !.log = @ \cup LogOf(s.req),
                        !.threw = @ \/ o.threw,
                        !.allOk = @ /\ Succeeds(mac.call.step, reply)]
  /\ UNCHANGED <<sessVars, resVars, libVars>>

\* The asset's host answers axios.head / axios.get, or the exchange fails.
MacExternal ==
  /\ mac.pc = "ext"
  /\ \E ok \in BOOLEAN :
       mac' = [mac EXCEPT !.pc = "resume",
                 !.val = IF ok THEN Resolved("true", None, None)
                         ELSE Threw(Thrown("axios", NoData))]
  /\ UNCHANGED <<sessVars, resVars, libVars>>

\* The awaited sub-call has settled: the macro runs to its next await.
MacResume ==
  /\ mac.pc = "resume"
  /\ mac' = Run(After(mac))
  /\ UNCHANGED <<sessVars, resVars, libVars>>

\* The delay() timer fires: the macro runs to its next await.
MacTimer ==
  /\ mac.pc = "timer"
  /\ mac' = Run(After(mac))
  /\ UNCHANGED <<sessVars, resVars, libVars>>

MacCall ==
  /\ mac.pc = "idle"
  /\ \E op \in Macros, nItems \in 0..MaxItems, nCreatives \in 0..MaxCreatives,
        nTemplates \in 0..MaxTemplates, asset \in BOOLEAN,
        cloneCreatives \in BOOLEAN, active \in BOOLEAN :
       /\ op # "createFullCampaign" => nTemplates = 0 /\ ~asset
       /\ op \notin {"createFullCampaign", "cloneCampaign"} => nCreatives = 0
       /\ op # "cloneCampaign" => ~cloneCreatives
       /\ op = "getCampaignPerformance" => nItems = 0
       /\ asset => nCreatives > 0 /\ nTemplates <= 1
       /\ active => op \in {"createFullCampaign", "cloneCampaign"} /\ nItems > 0
       /\ active => nTemplates = 0 /\ ~asset
       /\ MacInvoke(op, nItems, nCreatives, nTemplates, asset, cloneCreatives,
                    active)

MacAnswer ==
  /\ mac.pc = "wire"
  /\ \E reply \in Replies : MacReply(reply)

NextMacro == MacCall \/ MacAnswer \/ MacExternal \/ MacResume \/ MacTimer

InitMacro ==
  /\ mac = IdleMacro

\* ------------------------------------------------------------ queryAll
\* BaseResource.queryAll: `const batchSize = 50`
batchSize == 50

\* The matching records of the remote, n of them, in ascending identity
\* order: a record is known by its identity.
Records(n) == [k \in 1..n |-> k]

\* A remote that honours rows, offset and sort_by answers a page request
\* with the records at positions offset+1 .. offset+rows of that order.
Page(n, req) ==
  SubSeq(Records(n), req.offset + 1,
         IF req.offset + req.rows < n THEN req.offset + req.rows ELSE n)

\* queryAll's request body: {...body, rows, offset, sort_by: idField}
QueryBody(offset) == [rows |-> batchSize, offset |-> offset, sort_by |-> "idField"]

\* Faulty variant: a full page ends the scan as well.
LastPage_Inclusive(len) == len <= batchSize

\* `if (batch.length < batchSize) break`
LastPage(len) == len < batchSize

\* Faulty variant: the next page starts on the last record of this one.
NextOffset_Overlapping(offset) == offset + batchSize - 1

\* `offset += batchSize`
NextOffset(offset) == offset + batchSize

IdleQuery == [pc |-> "idle", n |-> 0, offset |-> 0, results |-> <<>>,
              sent |-> <<>>, out |-> "none"]

\* A caller invokes <resource>.queryAll(filter) while n records match: the
\* first page is requested.
QueryAllCall(n) ==
  /\ qall.pc = "idle"
  /\ qall' = [IdleQuery EXCEPT !.pc = "wire", !.n = n,
                               !.sent = <<QueryBody(0)>>]
  /\ UNCHANGED <<sessVars, resVars, macVars, clone, xfer, scan>>

\* request() returns the page asked for: it is appended, and the loop ends
\* or asks for the next page.
QueryAllPage ==
  /\ qall.pc = "wire"
  /\ LET batch == Page(qall.n, qall.sent[Len(qall.sent)]) IN
     IF LastPage(Len(batch))
     THEN qall' = [qall EXCEPT !.pc = "done", !.out = "resolved",
                               !.results = @ \o batch]
     ELSE qall' = [qall EXCEPT !.offset = NextOffset(@),
                               !.results = @ \o batch,
                               !.sent = Append(@, QueryBody(NextOffset(qall.offset)))]
  /\ UNCHANGED <<sessVars, resVars, macVars, clone, xfer, scan>>

\* request() throws for the page asked for: queryAll has no catch.
QueryAllFails ==
  /\ qall.pc = "wire"
  /\ qall' = [qall EXCEPT !.pc = "done", !.out = "threw", !.results = <<>>]
  /\ UNCHANGED <<sessVars, resVars, macVars, clone, xfer, scan>>

QueryAllStart ==
  /\ qall.pc = "idle"
  /\ \E n \in 0..MaxRecords : QueryAllCall(n)

NextQuery == QueryAllStart \/ QueryAllPage \/ QueryAllFails

InitQuery ==
  /\ qall = IdleQuery

\* ------------------------------------- queryAll against a changing remote
\* The page of the records `recs` (ascending identities) a request asks for.
PageOf(recs, req) ==
  SubSeq(recs, req.offset + 1,
         IF req.offset + req.rows < Len(recs) THEN req.offset + req.rows
         ELSE Len(recs))

\* recs without its k-th record.
RemoveAt(recs, k) == SubSeq(recs, 1, k - 1) \o SubSeq(recs, k + 1, Len(recs))

\* remote: the matching records now; n: how many matched at the call (the
\* identities 1..n); gone: those deleted since; changes: creations and
\* deletions since the call.
IdleScan == [pc |-> "idle", n |-> 0, remote |-> <<>>, gone |-> {},
             changes |-> 0, offset |-> 0, results |-> <<>>, out |-> "none"]

\* A caller invokes <resource>.queryAll(filter) while n records match.
ScanCall ==
  /\ scan.pc = "idle"
  /\ \E n \in 0..MaxRecords :
       scan' = [IdleScan EXCEPT !.pc = "wire", !.n = n, !.remote = Records(n)]
  /\ UNCHANGED <<sessVars, resVars, macVars, qall, clone, xfer>>

\* request() returns the page asked for, cut from the records that match
\* when the remote answers.
ScanPage ==
  /\ scan.pc = "wire"
  /\ LET batch == PageOf(scan.remote, QueryBody(scan.offset)) IN
     IF LastPage(Len(batch))
     THEN scan' = [scan EXCEPT !.pc = "done", !.out = "resolved",
                               !.results = @ \o batch]
     ELSE scan' = [scan EXCEPT !.offset = NextOffset(@),
                               !.results = @ \o batch]
  /\ UNCHANGED <<sessVars, resVars, macVars, qall, clone, xfer>>

\* request() throws for the page asked for.
ScanFails ==
  /\ scan.pc = "wire"
  /\ scan' = [scan EXCEPT !.pc = "done", !.out = "threw", !.results = <<>>]
  /\ UNCHANGED <<sessVars, resVars, macVars, qall, clone, xfer>>

\* Another client deletes a matching record while the call runs.
RemoteDelete ==
  /\ scan.pc = "wire"
  /\ scan.changes < MaxChanges
  /\ \E k \in 1..Len(scan.remote) :
       scan' = [scan EXCEPT !.remote = RemoveAt(@, k),
                            !.gone = @ \cup {scan.remote[k]},
                            !.changes = @ + 1]
  /\ UNCHANGED <<sessVars, resVars, macVars, qall, clone, xfer>>

\* Another client creates a matching record while the call runs: the
\* remote gives it the next identity.
RemoteCreate ==
  /\ scan.pc = "wire"
  /\ scan.changes < MaxChanges
  /\ scan' = [scan EXCEPT !.remote = Append(@, scan.n + scan.changes + 1),
                          !.changes = @ + 1]
  /\ UNCHANGED <<sessVars, resVars, macVars, qall, clone, xfer>>

NextScan == ScanCall \/ ScanPage \/ ScanFails \/ RemoteDelete \/ RemoteCreate

InitScan ==
  /\ scan = IdleScan

\* ------------------------------------------- cloneCampaign: the bodies
\* Budgets are written as decimal numerals, 0 as the falsy "zero";
\* budget_multiplier is a factor.
Num(v) ==
  CASE v = "zero" -> 0 [] v = "2500" -> 2500 [] v = "5000" -> 5000
    [] v = "7500" -> 7500 [] v = "10000" -> 10000 [] v = "15000" -> 15000
    [] v = "20000" -> 20000
Val(n) ==
  CASE n = 0 -> "zero" [] n = 2500 -> "2500" [] n = 5000 -> "5000"
    [] n = 7500 -> "7500" [] n = 10000 -> "10000" [] n = 15000 -> "15000"
    [] n = 20000 -> "20000"
\* The factor in hundredths.
Pct(m) == CASE m = "zero" -> 0 [] m = "0.5" -> 50 [] m = "1.5" -> 150 [] m = "2" -> 200
\* budget * options.budget_multiplier
Times(v, m) == Val((Num(v) * Pct(m)) \div 100)

\* The keys cloneCampaign takes out of the source campaign record before it
\* spreads the rest, and those it takes out of a source line item.
CampaignReadOnly == {"campaign_id", "created_date"}
LineItemReadOnly == {"line_item_id", "created_date"}
Without(o, ks) == Obj("Object", [k \in Keys |-> IF k \in ks THEN Absent ELSE o.f[k]])

\* cloneCampaign's options: start_date, end_date, budget_multiplier.
Options(start, end, m) == [start_date |-> start, end_date |-> end, budget_multiplier |-> m]

\* newCampaignData: {...campaignFields, name: newName}, the date overrides
\* and the multiplied campaign_budget.
NewCampaignData(originalCampaign, newName, options) ==
  LET d0 == Put(Without(originalCampaign, CampaignReadOnly), "name", newName)
      d1 == IF Truthy(options.start_date)
            THEN Put(d0, "start_date", options.start_date) ELSE d0
      d2 == IF Truthy(options.end_date)
            THEN Put(d1, "end_date", options.end_date) ELSE d1
  IN IF Truthy(options.budget_multiplier)
     THEN Put(d2, "campaign_budget",
              Times(Or(originalCampaign.f["campaign_budget"], "zero"),
                    options.budget_multiplier))
     ELSE d2

\* newLineItemData: {...lineItemFields, campaign_id: newCampaign.campaign_id}
\* and the multiplied line_item_budget.
NewLineItemData(lineItem, newCampaignId, options) ==
  LET d0 == Put(Without(lineItem, LineItemReadOnly), "campaign_id", newCampaignId)
  IN IF Truthy(options.budget_multiplier)
     THEN Put(d0, "line_item_budget",
              Times(Or(lineItem.f["line_item_budget"], "zero"),
                    options.budget_multiplier))
     ELSE d0

\* Source campaign records: the remote's campaign_id and created_date, a
\* name and a budget under the legacy key, the current key, both or neither.
SourceCampaigns ==
  { Obj("Object", [EmptyFields EXCEPT !["campaign_id"] = "id1",
                                      !["created_date"] = "d1",
                                      !["campaign_name"] = cn, !["name"] = n,
                                      !["campaign_budget"] = cb, !["budget"] = b,
                                      !["start_date"] = sd, !["end_date"] = "e1"]) :
      cn \in {Absent, "Source"}, n \in {Absent, "Source"},
      cb \in {Absent, "zero", "10000"}, b \in {Absent, "10000"},
      sd \in {Absent, "s1"} }

\* Source line items of that campaign.
SourceLineItems ==
  { Obj("Object", [EmptyFields EXCEPT !["line_item_id"] = "li1",
                                      !["campaign_id"] = "id1",
                                      !["created_date"] = "d1",
                                      !["line_item_name"] = "LI",
                                      !["line_item_budget"] = lb, !["budget"] = b]) :
      lb \in {Absent, "zero", "5000"}, b \in {Absent, "5000"} }

CloneOptions ==
  { Options(sd, ed, m) : sd \in {Absent, "s2"}, ed \in {Absent, "e2"},
                         m \in {Absent, "zero", "0.5", "1.5", "2"} }

NoClone == [pc |-> "none", originalCampaign |-> NoBody, lineItem |-> NoBody,
            newName |-> "none", options |-> Options(Absent, Absent, Absent),
            campaignSent |-> NoBody, lineItemSent |-> NoBody]

\* cloneCampaign(id, newName, options) is called for a source campaign with
\* one line item.
CloneInputs ==
  { [NoClone EXCEPT !.pc = "called", !.originalCampaign = c, !.lineItem = l,
                    !.newName = "New", !.options = o] :
      c \in SourceCampaigns, l \in SourceLineItems, o \in CloneOptions }

\* campaigns.create(newCampaignData): the body CampaignResource.create posts.
CloneCampaignStep ==
  /\ clone.pc = "called"
  /\ clone' = [clone EXCEPT !.pc = "campaign",
        !.campaignSent = CampaignCreateData(
            NewCampaignData(clone.originalCampaign, clone.newName, clone.options))]
  /\ UNCHANGED <<sessVars, resVars, macVars, qall, xfer, scan>>

\* lineItems.create(newLineItemData) under the id the remote gave the new
\* campaign: the body LineItemResource.create posts.
CloneLineItemStep ==
  /\ clone.pc = "campaign"
  /\ \E newId \in {"id2", "id3"} :
       clone' = [clone EXCEPT !.pc = "line_item",
          !.lineItemSent = LineItemCreateData(
              NewLineItemData(clone.lineItem, newId, clone.options))]
  /\ UNCHANGED <<sessVars, resVars, macVars, qall, xfer, scan>>

NextCloneData == CloneCampaignStep \/ CloneLineItemStep

InitClone ==
  /\ clone = NoClone

\* ------------------------------------------------- transport retries
\* `retries: options.retryOptions.retries || 3`
DefaultRetries == 3

\* options.retryOptions: absent (policy FALSE: axiosRetry is not installed)
\* or an object; hasRetries: `retries` is given; cond: the retryCondition
\* given ("status5xx": `error.response?.status >= 500`) or "default".
RetryOptions(policy, hasRetries, retries, cond) ==
  [policy |-> policy, hasRetries |-> hasRetries, retries |-> retries,
   cond |-> cond]
NoRetryOptions == RetryOptions(FALSE, FALSE, 0, "default")
RetryPolicies ==
  {NoRetryOptions}
  \cup { RetryOptions(TRUE, TRUE, n, c) :
           n \in 0..MaxRetries, c \in {"default", "status5xx"} }
  \cup { RetryOptions(TRUE, FALSE, 0, c) : c \in {"default", "status5xx"} }

\* How one send of a request ends. kind "response": the remote answered
\* with `status`; "network": the connection failed (error.code is set,
\* there is no response); "timeout": axios gave up (ECONNABORTED).
\* applied: the remote carried the request out before it ended that way.
Outcome(kind, status, applied) ==
  [kind |-> kind, status |-> status, applied |-> applied]
Outcomes ==
  { Outcome("response", StatusOk, TRUE),
    Outcome("response", Unauthorized, FALSE),
    Outcome("response", ServerError, FALSE),
    Outcome("response", ServerError, TRUE),
    Outcome("network", NoStatus, FALSE),
    Outcome("network", NoStatus, TRUE),
    Outcome("timeout", NoStatus, FALSE),
    Outcome("timeout", NoStatus, TRUE) }

\* The constructor's `retries` option handed to axiosRetry.
EffectiveRetries(opts) ==
  IF opts.hasRetries /\ opts.retries # 0 THEN opts.retries ELSE DefaultRetries

\* axios-retry: isNetworkError, isRetryableError, isIdempotentRequestError.
isNetworkError(o) == o.kind = "network"
isRetryableError(o) ==
  o.kind # "timeout" /\ (o.kind = "network" \/ o.status >= ServerError)
IdempotentMethods == {"GET", "PUT", "DELETE"}
isIdempotentRequestError(method, o) ==
  isRetryableError(o) /\ method \in IdempotentMethods

\* `retryCondition: options.retryOptions.retryCondition ||
\*  axiosRetry.isNetworkOrIdempotentRequestError`
RetryCondition(opts, method, o) ==
  IF opts.cond = "status5xx"
  THEN o.kind = "response" /\ o.status >= ServerError
  ELSE isNetworkError(o) \/ isIdempotentRequestError(method, o)

\* axios-retry's response interceptor:
\* `retryCount < retries && retryCondition(error)`.
ShouldRetry(x, o) ==
  /\ x.opts.policy
  /\ x.retryCount < EffectiveRetries(x.opts)
  /\ RetryCondition(x.opts, x.method, o)

\* A transient error: a network failure or a 5xx response.
Transient(o) ==
  o.kind = "network" \/ (o.kind = "response" /\ o.status >= ServerError)
Seen(o) == IF o.status = StatusOk THEN "ok"
           ELSE IF Transient(o) THEN "transient" ELSE "other"

\* One request of request(): retryCount is axios-retry's counter in the
\* config, reauth is config._retry, sends the times it went out, applied
\* the times the remote carried it out, seen the outcomes so far.
IdleXfer == [pc |-> "idle", method |-> "none", opts |-> NoRetryOptions,
             retryCount |-> 0, reauth |-> FALSE, sends |-> 0, applied |-> 0,
             seen |-> {}, out |-> "none"]

\* A caller of a client built with retryOptions `opts` makes a request.
XferCall ==
  /\ xfer.pc = "idle"
  /\ \E method \in {"GET", "POST"}, opts \in RetryPolicies :
       xfer' = [IdleXfer EXCEPT !.pc = "wire", !.method = method,
                                !.opts = opts, !.sends = 1]
  /\ UNCHANGED <<sessVars, resVars, macVars, qall, clone, scan>>

\* One send of the request ends with outcome o. A failure goes to
\* axios-retry's interceptor first (installed first), which sends the
\* request again or passes the error on to the 401 handler: that one
\* authenticates (authOk: the outcome) and replays, or rejects, and
\* request() throws.
XferEnd(o, authOk) ==
  /\ xfer.pc = "wire"
  /\ LET x == [xfer EXCEPT !.applied = IF o.applied THEN @ + 1 ELSE @,
                           !.seen = @ \cup {Seen(o)}]
     IN
     xfer' =
       IF o.status = StatusOk
       THEN [x EXCEPT !.pc = "done", !.out = "returned"]
       ELSE IF ShouldRetry(x, o)
       THEN [x EXCEPT !.retryCount = @ + 1, !.sends = @ + 1]
       ELSE IF ShouldReauth(o.status, x.reauth)
       THEN IF authOk
            THEN [x EXCEPT !.reauth = TRUE, !.sends = @ + 1]
            ELSE [x EXCEPT !.reauth = TRUE, !.pc = "done", !.out = "threw"]
       ELSE [x EXCEPT !.pc = "done", !.out = "threw"]
  /\ UNCHANGED <<sessVars, resVars, macVars, qall, clone, scan>>

XferAnswer ==
  /\ xfer.pc = "wire"
  /\ \E o \in Outcomes, authOk \in BOOLEAN :
       /\ ~authOk => o.status = Unauthorized
       /\ XferEnd(o, authOk)

NextRetry == XferCall \/ XferAnswer

InitRetry ==
  /\ xfer = IdleXfer

Init ==
  /\ InitSession /\ InitResource /\ InitMacro /\ InitQuery /\ InitClone
  /\ InitRetry /\ InitScan

SpecRetry == Init /\ [][NextRetry]_vars

SpecScan == Init /\ [][NextScan]_vars

NextSession ==
  /\ \E t \in Task :
       \/ CallAuthenticate(t)
       \/ CallRequest(t)
       \/ ServerHandle(t)
       \/ ClientReceive(t)
       \/ Resume(t)
  /\ UNCHANGED sentAt

\* ------------------------------------------------------ cookie rotation
\* Two callers of one client and a remote that hands out one session
\* cookie more than in SpecSession, so that a newer and an older cookie
\* exist; sentAt records, for the request of each caller, the logins that
\* had succeeded when it last went out.
RotationTask == 1..2
RotationTokens == MaxTokens + 1
SucceededLogins == {k \in AttemptId : attempt[k].st = "ok"}

\* The request of task t goes out in this step (a new request or a replay).
GoesOut(t) ==
  /\ HasTop(t, "wire")' /\ ~HasTop(t, "wire")
  /\ (Top(t).kind)' = "req"

NextRotation ==
  /\ \E t \in RotationTask :
       \/ CallAuthenticate(t)
       \/ CallRequest(t)
       \/ ServerAnswers(t, RotationTokens)
       \/ ClientReceive(t)
       \/ Resume(t)
  /\ sentAt' = [t \in Task |-> IF GoesOut(t) THEN SucceededLogins
                               ELSE sentAt[t]]

SpecRotation == Init /\ [][NextRotation]_vars

SpecSession == Init /\ [][NextSession]_vars

\* The remote answers every exchange on the wire, every response reaches
\* the client, and every ready continuation runs.
LiveSession ==
  /\ SpecSession
  /\ \A t \in Task : /\ WF_vars(ServerHandle(t) /\ UNCHANGED sentAt)
                     /\ WF_vars(ClientReceive(t) /\ UNCHANGED sentAt)
                     /\ WF_vars(Resume(t) /\ UNCHANGED sentAt)

SpecResource == Init /\ [][NextResource]_vars

SpecMacro == Init /\ [][NextMacro]_vars

\* cloneCampaign's request bodies as a function of its inputs.
InitCloneData ==
  /\ InitSession /\ InitResource /\ InitMacro /\ InitQuery /\ InitRetry
  /\ InitScan
  /\ clone \in CloneInputs

SpecClone == InitCloneData /\ [][NextCloneData]_vars

SpecQuery == Init /\ [][NextQuery]_vars

\* The remote answers every page request, and the caller does call.
LiveQuery == SpecQuery /\ WF_vars(NextQuery)

\* ------------------------------------------------------- session claims
\* A caller's authenticate() has not settled yet.
PendingAuthCall(t) == tasks[t].op = "authenticate" /\ tasks[t].pc = "busy"

\* The promise a caller's authenticate() awaits (or awaited).
AuthCallAttempt(t) == tasks[t].frames[1].wait

\* Task t has a login request in flight: sent, its response not yet received.
LoginInFlight(t) ==
  /\ Len(tasks[t].frames) > 0
  /\ Top(t).kind = "login"
  /\ Top(t).st \in {"wire", "answered"}

\* C1: any authenticate() calls that are unsettled at the same time wait for
\* one and the same attempt, and exactly one login request was sent for it.
C1_SingleFlight ==
  \A t1, t2 \in Task :
    PendingAuthCall(t1) /\ PendingAuthCall(t2) =>
      /\ AuthCallAttempt(t1) = AuthCallAttempt(t2)
      /\ loginSends[AuthCallAttempt(t1)] = 1
      /\ attempts = AuthCallAttempt(t1)

\* C1 witness: every caller has an authenticate() pending on the same login,
\* which is still on the wire.
C1_Witness ==
  /\ \A t \in Task : PendingAuthCall(t)
  /\ \E t \in Task : LoginInFlight(t) /\ Top(t).st = "wire"

\* C2: at most one login request is in flight.
C2_AtMostOneLoginInFlight ==
  Cardinality({t \in Task : LoginInFlight(t)}) <= 1

\* C2 witness: a login started by a request's 401 handler is in flight while
\* an explicit authenticate() and another request's 401 handler wait for it.
C2_Witness ==
  \E t1, t2, t3 \in Task :
    /\ LoginInFlight(t1) /\ tasks[t1].op = "request"
    /\ PendingAuthCall(t2)
    /\ t3 # t1 /\ tasks[t3].op = "request" /\ HasTop(t3, "wait")

\* The attempts whose login task t started.
LoginsStartedBy(t) ==
  {k \in AttemptId : attempt[k].st # "unused" /\ attempt[k].by = t}

\* C3: a request is sent at most twice; the second send is a replay made by
\* the 401 handler after the authentication it awaited completed, and is
\* made exactly when that authentication succeeded; an unauthorized error
\* reaches the caller only from the replay, and one request starts at most
\* one login.
C3_ReplayOnceAfterReauth ==
  \A t \in Task :
    tasks[t].op = "request" =>
      LET f == tasks[t].frames[1] IN
      /\ f.sends <= 2
      /\ f.sends = 2 => f.retry /\ f.wait # None /\ attempt[f.wait].st = "ok"
      /\ (f.retry /\ f.st # "wait") => (f.sends = 2 <=> attempt[f.wait].st = "ok")
      /\ (tasks[t].pc = "rejected" /\ tasks[t].err.src = Unauthorized) =>
            f.sends = 2 /\ tasks[t].err.kind = "body"
      /\ Cardinality(LoginsStartedBy(t)) <= 1

\* C3 witness: a request was answered 401, a login then succeeded, the
\* replay was answered 401 too and that error reached the caller.
C3_Witness ==
  \E t \in Task :
    /\ tasks[t].op = "request" /\ tasks[t].pc = "rejected"
    /\ tasks[t].err.src = Unauthorized
    /\ tasks[t].frames[1].sends = 2
    /\ attempt[tasks[t].frames[1].wait].st = "ok"

\* The remote refused the login of attempt k: a failure status, or a body
\* whose success flag is false.
LoginRefused(k) ==
  /\ attempt[k].st # "unused"
  /\ attempt[k].resp.status # NoStatus
  /\ attempt[k].resp.status # StatusOk \/ ~attempt[k].resp.ok

\* C4: once the refusal of a login has been received (and the continuations
\* it triggers have run), every authenticate() that waited for that login
\* is rejected with an authentication error that carries the remote status
\* and body, and the login request was sent once.
C4_LoginRefusalRejects ==
  \A t \in Task :
    (/\ tasks[t].op = "authenticate"
     /\ LoginRefused(AuthCallAttempt(t))
     /\ ~MicrotaskPending) =>
      /\ tasks[t].pc = "rejected"
      /\ tasks[t].err.kind = "AuthenticationFailed"
      /\ tasks[t].err.status = attempt[AuthCallAttempt(t)].resp.status
      /\ tasks[t].err.body = "fail"
      /\ loginSends[AuthCallAttempt(t)] = 1

\* ------------------------------------------------------ resource claims
\* The word isNotFoundError looks for after "to": edit looks for update.
ActionOf(op) == IF op = "delete" THEN "delete" ELSE "update"

\* The remote answered the call's first request with an error.
FirstRequestFailed ==
  /\ Len(rcall.replies) >= 1
  /\ RequestOutcome(rcall.replies[1]).threw

\* The remote answered the call's first request with the message
\* 'Could not load object ... to <action>'.
ReportedNotFound ==
  /\ FirstRequestFailed
  /\ rcall.replies[1].data.msg = NotFoundMsg(ActionOf(rcall.op))

\* C8: edit and delete on an id the remote reports as not found resolve to
\* {success:false} when failOnNotFound is false and throw when it is true;
\* any other remote error is thrown in both modes.
C8_NotFoundSwallowed ==
  (rcall.pc = "done" /\ rcall.op \in {"edit", "delete"} /\ FirstRequestFailed) =>
    IF ReportedNotFound /\ ~rcall.failOnNotFound
    THEN rcall.out.kind = "resolved" /\ rcall.out.success = "false"
    ELSE rcall.out.kind = "threw"

\* C9: a create whose request the remote rejects (a body with success
\* false, whatever the HTTP status) resolves with success=false and does
\* not throw.
C9_RejectedCreateResolves ==
  (/\ rcall.pc = "done" /\ rcall.op = "create"
   /\ Len(rcall.replies) >= 1
   /\ rcall.replies[1].data.success = "false") =>
    rcall.out.kind = "resolved" /\ rcall.out.success = "false"

\* C10: create and edit with a body that is empty or not a plain object
\* resolve to {success:false, code:400} and send nothing, on every resource.
C10_InvalidBodyIs400 ==
  (rcall.pc # "idle" /\ rcall.op \in {"create", "edit"} /\ Invalid(rcall.body)) =>
    /\ rcall.pc = "done"
    /\ rcall.out = ValidationFailure
    /\ rsent = <<>>

\* --------------------------------------------------------- macro claims
\* campaigns.create() of the macro call has settled with a campaign that
\* carries its campaign_id.
CampaignCreated ==
  /\ mac.campaign.kind = "resolved"
  /\ mac.campaign.success = "true"
  /\ mac.campaign.pay \notin {None, Anon}

\* campaigns.create() of the macro call has settled without a campaign: it
\* threw, resolved without success, or returned no campaign_id.
CampaignFailed ==
  /\ mac.campaign # NoResult
  /\ \/ mac.campaign.kind = "threw"
     \/ mac.campaign.success # "true"
     \/ mac.campaign.pay \in {None, Anon}

\* C5: createFullCampaign resolves with success=true whenever the campaign
\* itself was created, whatever fails afterwards and however it fails; every
\* line item of the call is attempted.
C5_SubEntityFailuresSkipped ==
  (mac.op = "createFullCampaign" /\ mac.pc = "done" /\ CampaignCreated) =>
    /\ mac.out = MacOut("resolved", "true")
    /\ mac.i = mac.nItems

\* C6: every macro resolves, and never rejects, to an object with a boolean
\* success field, whatever error an underlying remote call has thrown.
C6_MacrosAlwaysResolve ==
  (mac.pc = "done" /\ mac.threw) =>
    /\ mac.out.kind = "resolved"
    /\ mac.out.success \in {"true", "false"}

\* The requests campaigns.create() itself sends: the POST and the find of
\* the new record.
OnlyCampaignCreateSent ==
  mac.log \subseteq {Sent("POST", "campaign", "strict"),
                     Sent("GET", "campaign", "plain")}

PostAssignedId ==
  /\ rcall.op = "create" /\ Len(rcall.replies) >= 1
  /\ rcall.replies[1].status = StatusOk
  /\ rcall.replies[1].data.success = "true"
  /\ rcall.replies[1].data.pid # None

\* The v2 line-item endpoint answered the POST with the bare new record.
PostEchoedRecord ==
  /\ rcall.op = "create" /\ Len(rcall.replies) >= 1
  /\ rcall.replies[1].status = StatusOk
  /\ rcall.replies[1].data.success # "false"
  /\ rcall.replies[1].data.top # None

\* The follow-up find of the create call was answered without an error.
FindAnswered ==
  /\ Len(rcall.replies) = 2
  /\ ~RequestOutcome(rcall.replies[2]).threw

C12_FindMarksMissing ==
  (/\ rcall.op = "find" /\ rcall.pc = "done"
   /\ ~RequestOutcome(rcall.replies[1]).threw) =>
    IF rcall.replies[1].data.first = None
    THEN rcall.out.kind = "resolved" /\ rcall.out.success = "false"
    ELSE rcall.out = Resolved("true", None, rcall.replies[1].data.first)

\* ------------------------------------------------------- queryAll claims
\* C13: against a remote that honours rows, offset and sort_by and whose
\* record set does not change, queryAll returns every matching record
\* exactly once in ascending identity order, for any number of records.
C13_FullScanInOrder ==
  (qall.pc = "done" /\ qall.out = "resolved") => qall.results = Records(qall.n)

\* queryAll has returned 100 records, two full pages, after an empty third.
C13_Witness ==
  /\ qall.pc = "done" /\ qall.out = "resolved"
  /\ qall.n = 2 * batchSize
  /\ Len(qall.results) = 2 * batchSize
  /\ Len(qall.sent) = 3

\* The page requests of a whole scan of n records: offsets 0, 50, 100, ...,
\* floor(n/50)+1 of them.
ScanOf(n) == [k \in 1..((n \div batchSize) + 1) |-> QueryBody(batchSize * (k - 1))]

\* C14: queryAll terminates, and for n matching records it has then issued
\* exactly floor(n/50)+1 page requests, at offsets 0, 50, 100, ...; it never
\* asks for more.
C14_ScanTerminates ==
  /\ <>(qall.pc = "done")
  /\ [](qall.pc # "idle" => Len(qall.sent) <= (qall.n \div batchSize) + 1)
  /\ []((qall.pc = "done" /\ qall.out = "resolved") => qall.sent = ScanOf(qall.n))

\* A scan of exactly 50 records has ended with its second, empty page.
C14_Witness ==
  /\ qall.pc = "done" /\ qall.out = "resolved"
  /\ qall.n = batchSize
  /\ qall.sent = <<QueryBody(0), QueryBody(batchSize)>>
  /\ Len(qall.results) = batchSize

\* ------------------------------------------------- cloneCampaign claims
\* C15: the campaign cloneCampaign creates is posted with the name newName
\* and with the start and end dates of the options when they are given,
\* whatever name fields the source record carries; the other writable
\* fields are those of the source.
C15_CloneIsNamedNewName ==
  clone.pc \in {"campaign", "line_item"} =>
    /\ clone.campaignSent.f["campaign_name"] = clone.newName
    /\ Truthy(clone.options.start_date) =>
         clone.campaignSent.f["start_date"] = clone.options.start_date
    /\ Truthy(clone.options.end_date) =>
         clone.campaignSent.f["end_date"] = clone.options.end_date
    /\ ~Truthy(clone.options.start_date) =>
         clone.campaignSent.f["start_date"] = clone.originalCampaign.f["start_date"]
    /\ \A k \in CampaignReadOnly : clone.campaignSent.f[k] = Absent

\* The budget a record carries, under the legacy key or the current one.
BudgetOf(o, legacy) == IF Defined(o.f[legacy]) THEN o.f[legacy] ELSE o.f["budget"]

\* C17: with options.budget_multiplier = m the new campaign is posted with
\* the source campaign's budget times m and the cloned line item with the
\* source line item's budget times m, under the new campaign's id, which
\* is not the source's.
C17_BudgetsMultiplied ==
  /\ (/\ clone.pc \in {"campaign", "line_item"}
      /\ Defined(clone.options.budget_multiplier)
      /\ Defined(BudgetOf(clone.originalCampaign, "campaign_budget")))
     => clone.campaignSent.f["campaign_budget"] =
          Times(BudgetOf(clone.originalCampaign, "campaign_budget"),
                clone.options.budget_multiplier)
  /\ (/\ clone.pc = "line_item"
      /\ Defined(clone.options.budget_multiplier)
      /\ Defined(BudgetOf(clone.lineItem, "line_item_budget")))
     => /\ clone.lineItemSent.f["budget"] =
             Times(BudgetOf(clone.lineItem, "line_item_budget"),
                   clone.options.budget_multiplier)
        /\ clone.lineItemSent.f["line_item_budget"] = Absent
        /\ clone.lineItemSent.f["campaign_id"] # clone.originalCampaign.f["campaign_id"]

\* --------------------------------------- macro claims: clone and bulk
\* The line-item query of the clone answered for the source's line items:
\* it returned records unless there are none.
LineItemsListed == mac.nItems > 0 => mac.listed > 0

\* C16: a cloneCampaign call that succeeds has issued as many line-item
\* create requests as the source campaign has line items on the remote,
\* however many there are.
C16_EveryLineItemCloned ==
  (/\ mac.op = "cloneCampaign" /\ mac.pc = "done"
   /\ mac.out = MacOut("resolved", "true")
   /\ LineItemsListed)
  => mac.i = mac.nItems

\* The association query of the current line item answered for the source
\* line item's associations: it returned records unless there are none.
AssociationsListed == mac.nCreatives > 0 => mac.cliListed > 0

\* C18: when an iteration of the clone has cloned its line item, it has
\* recreated every creative association of the source line item, one create
\* each, unless clone_creatives is false; then it has queried and created
\* no association.
C18_AssociationsRecreated ==
  (mac.op = "cloneCampaign" /\ mac.at = "c-delay" /\ mac.cloned) =>
    IF mac.cloneCreatives
    THEN AssociationsListed => mac.j = mac.nCreatives
    ELSE /\ mac.j = 0
         /\ \A q \in mac.log : q.res # "creative_line_item"

\* C19: bulkUpdateCampaignStatus edits the ids in input order, one edit per
\* id whatever the earlier edits did, and resolves with success=true and
\* updated + failed = number of ids.
C19_BulkUpdateCountsEveryId ==
  mac.op = "bulkUpdateCampaignStatus" =>
    /\ mac.at = "u-edit" =>
         /\ mac.i < mac.nItems
         /\ mac.call.id = mac.i + 1
         /\ mac.updated + mac.failed = mac.i
    /\ mac.at = "u-delay" => mac.updated + mac.failed = mac.i + 1
    /\ mac.pc = "done" =>
         /\ mac.out = MacOut("resolved", "true")
         /\ mac.i = mac.nItems
         /\ mac.updated + mac.failed = mac.nItems

\* Two ids were given; the edit of one succeeded and the edit of the other
\* threw or came back unsuccessful; the macro has settled.
C19_Witness ==
  /\ mac.op = "bulkUpdateCampaignStatus" /\ mac.pc = "done"
  /\ mac.nItems = 2
  /\ mac.updated = 1 /\ mac.failed = 1
  /\ mac.out = MacOut("resolved", "true")

\* C20: once campaigns.find has answered, bulkCreateLineItems resolves; when
\* the answer holds no campaign it resolves with success=false and no
\* line-item create is ever requested; otherwise every item is attempted,
\* created + errors = number of items, and success is true exactly when
\* there is no error.
C20_BulkCreateAttemptsAll ==
  mac.op = "bulkCreateLineItems" =>
    /\ ~Succeeded(mac.campaign) =>
         /\ Sent("POST", "line_item", "v2") \notin mac.log
         /\ mac.created = 0 /\ mac.errors = 0 /\ mac.i = 0
    /\ (mac.campaign.kind = "resolved" /\ ~Succeeded(mac.campaign)) =>
         mac.pc = "done" /\ mac.out = MacOut("resolved", "false")
    /\ (Succeeded(mac.campaign) /\ mac.pc = "done") =>
         /\ mac.i = mac.nItems
         /\ mac.created + mac.errors = mac.nItems
         /\ mac.out.kind = "resolved"
         /\ mac.out.success = (IF mac.errors = 0 THEN "true" ELSE "false")

\* The campaign was found, two items were given, one line item was created
\* and the other failed; the macro has resolved with success=false.
C20_Witness ==
  /\ mac.op = "bulkCreateLineItems" /\ mac.pc = "done"
  /\ Succeeded(mac.campaign)
  /\ mac.nItems = 2 /\ mac.created = 1 /\ mac.errors = 1
  /\ mac.out = MacOut("resolved", "false")

\* ------------------------------------------- macro claims: active flags
\* C21: no macro creates a creative with active=true, and no macro creates
\* a line item with active=true while the line item still has creatives to
\* be attached, whatever active flag the input or the cloned source carries.
C21_NothingActiveBeforeAttached ==
  /\ "creative" \notin mac.activeSent
  /\ mac.nCreatives > 0 => "line_item" \notin mac.activeSent

Created(at) ==
  /\ mac.pc = "resume" /\ mac.at = at
  /\ mac.val.kind = "resolved" /\ mac.val.success = "true" /\ mac.val.pay # None

\* C24: the lists of createFullCampaign's payload grow by one entry exactly
\* when a create of their kind has succeeded, so they hold the created
\* sub-entities in creation order; and when every remote call of the run
\* succeeded the macro resolves with success=true, one line item per
\* requested line item and one creative and one association per requested
\* creative.
C24_PayloadListsCreated ==
  /\ [][mac.op = "createFullCampaign" =>
          /\ mac'.result.line_items =
               mac.result.line_items + (IF Created("li-create") THEN 1 ELSE 0)
          /\ mac'.result.creatives =
               mac.result.creatives + (IF Created("creative") THEN 1 ELSE 0)
          /\ mac'.result.creative_line_items =
               mac.result.creative_line_items + (IF Created("cli") THEN 1 ELSE 0)]_vars
  /\ []((mac.op = "createFullCampaign" /\ mac.pc = "done" /\ mac.allOk) =>
          /\ mac.out = MacOut("resolved", "true")
          /\ mac.result.line_items = mac.nItems
          /\ mac.result.creatives = mac.nItems * mac.nCreatives
          /\ mac.result.creative_line_items = mac.nItems * mac.nCreatives)

\* Two line items with one creative each were asked for, every remote call
\* succeeded, and the macro has resolved.
C24_Witness ==
  /\ mac.op = "createFullCampaign" /\ mac.pc = "done" /\ mac.allOk
  /\ mac.nItems = 2 /\ mac.nCreatives = 1
  /\ mac.result.line_items = 2 /\ mac.result.creatives = 2
  /\ mac.result.creative_line_items = 2

\* ------------------------------------------ resource claims: aliases
\* The first request of the call has been sent.
FirstSent == Len(rsent) >= 1

\* The legacy key and the current key of each concept of a resource.
AliasPairs(res) ==
  CASE res = "campaign" -> {<<"campaign_name", "name">>, <<"campaign_budget", "budget">>}
    [] res = "line_item" -> {<<"line_item_name", "name">>, <<"line_item_type", "type">>,
                             <<"line_item_budget", "budget">>}
    [] res = "creative" -> {<<"creative_name", "name">>, <<"creative_type", "type">>,
                            <<"creative_attributes", "attributes">>}
    [] OTHER -> {}

\* The body with every value of an aliased concept moved to the other key.
OtherAlias(res, body) ==
  Obj(body.ctor,
      [k \in Keys |->
         IF \E p \in AliasPairs(res) : k = p[1] THEN
           body.f[(CHOOSE p \in AliasPairs(res) : k = p[1])[2]]
         ELSE IF \E p \in AliasPairs(res) : k = p[2] THEN
           body.f[(CHOOSE p \in AliasPairs(res) : k = p[2])[1]]
         ELSE body.f[k]])

\* The body with a type given as a string replaced by its numeric code.
TypeAsCode(body) ==
  Obj(body.ctor,
      [k \in Keys |->
         IF k \in {"type", "creative_type"}
            /\ body.f[k] \in {"display", "Display", "banner"} THEN "zero"
         ELSE IF k \in {"type", "creative_type"} /\ body.f[k] \in {"video", "VIDEO"}
         THEN "one"
         ELSE body.f[k]])

\* The body gives every aliased concept under at most one of its keys.
OneKeyEach(res, body) ==
  \A p \in AliasPairs(res) : body.f[p[1]] = Absent \/ body.f[p[2]] = Absent

\* C25: the body campaigns.create / campaigns.edit send for a name and a
\* budget does not depend on the key they are given under, and the body
\* creatives.create sends does not depend on the type being given as a
\* string or as its numeric code.
C25_AliasesSendSameBody ==
  (FirstSent /\ rcall.body.ctor = "Object" /\ rsent[1].method \in {"POST", "PUT"}) =>
    /\ (rcall.res = "campaign" /\ OneKeyEach("campaign", rcall.body)) =>
         rsent[1].data = Shaped("campaign", rcall.op, OtherAlias("campaign", rcall.body))
    /\ (rcall.res = "creative" /\ rcall.op = "create") =>
         rsent[1].data = Shaped("creative", "create", TypeAsCode(rcall.body))

\* C26: the body of a campaign, line-item or creative create request never
\* holds both the legacy key and the current key of a concept, whatever the
\* caller's body holds.
C26_OneKeyPerConcept ==
  (/\ FirstSent /\ rcall.op = "create" /\ rsent[1].method = "POST"
   /\ rcall.res \in {"campaign", "line_item", "creative"})
  => OneKeyEach(rcall.res, rsent[1].data)

\* The creative type the claim expects to be sent for a given one.
ExpectedType(v) ==
  CASE v \in {"display", "Display", "banner"} -> "zero"
    [] v \in {"video", "VIDEO"} -> "one"
    [] v = "native" -> "two"
    [] OTHER -> v

\* The creative type a body gives: creative_type, or else type.
GivenType(body) ==
  IF Defined(body.f["creative_type"]) THEN body.f["creative_type"]
  ELSE body.f["type"]

\* C27: creatives.create sends a given type under creative_type, a known
\* string as its code, any other string and any number unchanged, and sends
\* no type key.
C27_TypeSentAsCode ==
  (/\ FirstSent /\ rcall.res = "creative" /\ rcall.op = "create"
   /\ rsent[1].method = "POST" /\ rcall.body.ctor = "Object"
   /\ Defined(GivenType(rcall.body)))
  => /\ rsent[1].data.f["creative_type"] = ExpectedType(GivenType(rcall.body))
     /\ rsent[1].data.f["type"] = Absent

\* ------------------------------------------------------- session cookies
\* A login succeeded and its response carried a session cookie.
TokenCaptured ==
  \E k \in AttemptId :
    attempt[k].st = "ok" /\ attempt[k].resp.setCookie # None

\* C28: every request that goes out (a new request, a login, or the replay
\* the 401 handler makes) carries the stored session token; once a
\* successful login has delivered a token, no request goes out without one.
C28_TokenAttached ==
  [][\A t \in Task :
       (HasTop(t, "wire")' /\ ~HasTop(t, "wire")) =>
          /\ (Top(t).cookie)' = sessionCookies
          /\ TokenCaptured => (Top(t).cookie)' # None]_vars

\* C28 witness: a request was answered 401, the login its handler awaited
\* succeeded and delivered a token, and the replay on the wire carries it.
C28_Witness ==
  \E t \in Task :
    /\ tasks[t].op = "request" /\ HasTop(t, "wire")
    /\ Top(t).kind = "req" /\ Top(t).sends = 2
    /\ attempt[Top(t).wait].st = "ok"
    /\ attempt[Top(t).wait].resp.setCookie # None
    /\ Top(t).cookie = attempt[Top(t).wait].resp.setCookie

\* C29: when a response that carries a session cookie reaches the client,
\* whatever its status, the stored token becomes that cookie.
C29_EveryCookieStored ==
  [][\A t \in Task :
       (/\ HasTop(t, "answered")
        /\ Top(t).resp.setCookie # None
        /\ tasks'[t] # tasks[t]) =>
          sessionCookies' = Top(t).resp.setCookie]_vars

\* --------------------------------------------------- logical failures
\* The resource call settled on the first answer request() got, and that
\* answer had HTTP status 200.
SettledOnFirstOk ==
  /\ rcall.pc = "done"
  /\ Len(rcall.replies) = 1
  /\ rcall.replies[1].status = StatusOk

\* C30: a 200 response whose body has success === false makes request()
\* throw an Error built from that body, which the resource method passes
\* on; a 200 response whose flag is absent or true is returned, and the
\* method resolves. (Seen through every resource method but the targeting
\* template query, which catches what request() throws.)
C30_FalseFlagThrows ==
  (SettledOnFirstOk
   /\ ~(rcall.res = "targeting_template" /\ rcall.op = "query")) =>
    IF rcall.replies[1].data.success = "false"
    THEN /\ rcall.out.kind = "threw"
         /\ rcall.out.thrown = Thrown("Error", rcall.replies[1].data)
    ELSE rcall.out.kind = "resolved"

\* C30 witness: a find was answered 200 with success false and threw.
C30_Witness ==
  /\ SettledOnFirstOk
  /\ rcall.op = "find"
  /\ rcall.replies[1].data.success = "false"
  /\ rcall.out.kind = "threw"
  /\ rcall.out.thrown.shape = "Error"

\* ---------------------------------------------------- transport claims
\* C31: under a retry policy with `retries` configured (0 included), a
\* request of which every send so far ended in a transient error has gone
\* out at most 1 + retries times, and if it has settled it has thrown.
C31_AttemptsBounded ==
  (/\ xfer.opts.policy /\ xfer.opts.hasRetries
   /\ xfer.seen = {"transient"}) =>
     /\ xfer.sends <= 1 + xfer.opts.retries
     /\ xfer.pc = "done" => xfer.out = "threw"

\* C36: the POST of one create call is carried out by the remote at most
\* once, whatever the retry policy resends and the 401 handler replays.
C36_WriteAppliedOnce ==
  xfer.method = "POST" => xfer.applied <= 1

\* ------------------------------------------------ deprecated resources
\* The remote call failed: no 2xx response, or a body with success false.
RemoteFailed(reply) ==
  reply.status # StatusOk \/ reply.data.success = "false"

\* C32: targetingTemplates.create settles at once with success false and
\* code 410 and sends nothing; targetingTemplates.query never throws, and
\* when its remote call failed it resolves with success true and an empty
\* list.
C32_DeprecatedTemplates ==
  rcall.res = "targeting_template" =>
    /\ (rcall.op = "create" /\ rcall.pc # "idle") =>
          /\ rcall.pc = "done"
          /\ rcall.out = Resolved("false", Gone, None)
          /\ rsent = <<>>
    /\ (rcall.op = "query" /\ rcall.pc = "done") =>
          /\ rcall.out.kind = "resolved"
          /\ rcall.out.success = "true"
          /\ RemoteFailed(rcall.replies[1]) =>
                rcall.out = Resolved("true", None, None)

\* C32 witness: a targeting template query whose request the remote
\* rejected has resolved with an empty list.
C32_Witness ==
  /\ rcall.res = "targeting_template" /\ rcall.op = "query"
  /\ rcall.pc = "done"
  /\ Len(rsent) = 1
  /\ rcall.replies[1].status = BadRequest
  /\ rcall.out = Resolved("true", None, None)

\* ------------------------------------------------ macro claims: assets
\* uploadCreativeAsset has just thrown: the await the macro resumes from is
\* one of its steps and settled the way that makes it throw.
UploadThrows ==
  /\ mac.op = "createFullCampaign" /\ mac.pc = "resume"
  /\ \/ mac.at \in {"asset-post", "asset-find"}
        /\ (mac.val.kind = "threw" \/ mac.val.pay = None)
     \/ mac.at \in {"asset-get", "asset-upload"} /\ mac.val.kind = "threw"

\* C33: when the asset upload of a creative fails, createFullCampaign goes
\* straight on to creatives.create with a body that names no asset; when
\* that creative is created, its association with the line item is
\* requested, and both are counted in the result as for any creative.
C33_FailedUploadGoesOn ==
  [][/\ UploadThrows =>
          /\ mac'.at = "creative" /\ mac'.pc = "wire"
          /\ mac'.uploadFailed /\ ~mac'.assetRef
          /\ mac'.result = mac.result
     /\ (/\ mac.uploadFailed /\ mac.at = "creative" /\ mac.pc = "resume"
         /\ Succeeded(mac.val) /\ HasId(mac.val) /\ mac.lineItemId # None) =>
          /\ mac'.at = "cli" /\ mac'.pc = "wire"
          /\ mac'.result.creatives = mac.result.creatives + 1
     /\ (/\ mac.uploadFailed /\ mac.at = "cli" /\ mac.pc = "resume"
         /\ Succeeded(mac.val)) =>
          /\ mac'.result.creative_line_items =
                mac.result.creative_line_items + 1
          /\ mac'.out.kind # "rejected"]_vars

\* C33 witness: the upload of a creative failed, the creative was created
\* without an asset reference and its association has been created.
C33_Witness ==
  /\ mac.op = "createFullCampaign"
  /\ mac.uploadFailed /\ ~mac.assetRef
  /\ mac.at = "cli" /\ mac.pc = "resume"
  /\ Succeeded(mac.val)
  /\ mac.result.creatives = 1

\* ---------------------------------------------------- session liveness
\* Task t needs a new login that the bound MaxAttempts does not allow.
OutOfAttempts(t) ==
  /\ HasTop(t, "answered")
  /\ ShouldReauth(Top(t).resp.status, Top(t).retry)
  /\ ~HasAuthPromise(authPromise)
  /\ attempts = MaxAttempts

\* C34: every call in progress eventually settles when the remote answers
\* every exchange, also when the login itself is answered 401. (A call
\* that would need more logins than MaxAttempts is left out.)
C34_EveryCallSettles ==
  \A t \in Task :
    (tasks[t].pc = "busy") ~>
       (tasks[t].pc \in {"resolved", "rejected"} \/ OutOfAttempts(t))

\* ------------------------------------------- queryAll: changing remote
\* How often the record id is in the list.
Occurrences(list, id) == Cardinality({k \in 1..Len(list) : list[k] = id})

\* C35: the result of queryAll holds exactly once every record that
\* matched during the whole call, and no record twice, whatever other
\* clients create or delete meanwhile.
C35_StableUnderChanges ==
  (scan.pc = "done" /\ scan.out = "resolved") =>
    /\ \A id \in (1..scan.n) \ scan.gone : Occurrences(scan.results, id) = 1
    /\ \A k \in 1..Len(scan.results) :
         Occurrences(scan.results, scan.results[k]) = 1

\* ------------------------------------------------ session: late responses
\* A login that succeeded after the request of task t went out delivered
\* a session cookie.
ReauthenticatedSince(t) ==
  \E k \in SucceededLogins \ sentAt[t] : attempt[k].resp.setCookie # None

\* C37: when a login has succeeded and delivered a token after the request
\* of task t went out, the response to that request does not change the
\* stored session token.
C37_NoRollback ==
  [][\A t \in RotationTask :
       (/\ HasTop(t, "answered") /\ Top(t).kind = "req"
        /\ tasks'[t] # tasks[t]
        /\ ReauthenticatedSince(t)) =>
          sessionCookies' = sessionCookies]_vars

\* ------------------------------------------- macro claims: clone source
\* C38: cloneCampaign sends only GET and POST requests, so it changes and
\* deletes nothing that exists; the only campaign_id its line item POSTs
\* carry is the id the new campaign came back with, and the source's id
\* (1) only if the remote gave the new campaign that very id.
C38_SourceOnlyRead ==
  mac.op = "cloneCampaign" =>
    /\ \A s \in mac.log : s.method \in {"GET", "POST"}
    /\ \A s \in mac.log : s.method = "POST" =>
          s.res \in {"campaign", "line_item", "creative_line_item"}
    /\ mac.campaignRefs \subseteq {IdText(mac.campaignId)}
    /\ mac.campaignRefs # {} => mac.campaignId # None
    /\ (mac.campaignId # 1) => IdText(1) \notin mac.campaignRefs

\* C38 witness: a clone has resolved after it created two line items under
\* the new campaign, whose id is not the source's.
C38_Witness ==
  /\ mac.op = "cloneCampaign" /\ mac.pc = "done"
  /\ mac.out = MacOut("resolved", "true")
  /\ mac.campaignId = 2
  /\ mac.campaignRefs = {IdText(2)}
  /\ mac.result.line_items >= 1
  /\ Sent("POST", "creative_line_item", "strict") \in mac.log

====
